---------------------------- MODULE Spec2Model ----------------------------
(***************************************************************************)
(* TableMatch: the Add Game Session screen's catalog search (searchBGG),   *)
(* its filter-and-sort step, the session form (handleAddGame), the session *)
(* details screens (toggleRole, handleSaveChanges), the profile screen     *)
(* (handleRemoveFriend) and the Search Game Sessions screen (the filter    *)
(* effect, joinGame), as state machines.                                   *)
(*                                                                         *)
(* Strings are sequences of one-character strings, so that toLowerCase,    *)
(* trim, indexOf, includes and parseInt are computed and not assumed.      *)
(* JavaScript values that are not strings are tagged records: Null,        *)
(* Undefined, NaN and Num(n).                                              *)
(***************************************************************************)
EXTENDS Integers, Sequences, FiniteSets, TLC

VARIABLES
    \* ---- AddGameSession: catalog search (src/unnamed/part_001:72-75)
    bggSearchTerm,        \* useState('')   the text in the search field
    bggResults,           \* useState([])   the displayed results
    isSearching,          \* useState(false)
    searchRequestIdRef,   \* useRef(0)
    requests,             \* the calls of searchBGG that reached the fetch, by request id
    searchAlerts,         \* request ids whose catch block showed the error alert
    settleOrder,          \* history: the request ids in the order their fetches settled
    \* ---- the filter-and-sort step taken alone
    term,                 \* the term searchBGG was called with
    items,                \* the <item> elements of the response
    sortedResults,        \* what the step hands to setBggResults
    previousResults,      \* what the step handed over the time before
    phase,                \* "fetched" before the step, "resolved" after it,
                          \* "resolved again" after it ran a second time
    \* ---- GameSessionDetails (src/unnamed/part_005:36)
    session,              \* useState(null)  the session shown, Null when not found
    sessionDoc,           \* the gameSessions document in the store
    pendingUpdates,       \* the toggleRole calls waiting for updateDoc
    detailsAlert,         \* the last alert toggleRole showed, "none" at first
    \* ---- AddGameSession: the form (src/unnamed/part_001:61-71)
    user,                 \* useAuth(): Null or [uid |-> .., displayName |-> ..]
    boardgamegeekID,      \* useState('')
    title,                \* useState('')
    location,             \* useState('')
    gameTime,             \* useState(new Date()): "now" or a picked time
    minPlayers,           \* useState(2)
    maxPlayers,           \* useState(4)
    friends,              \* useState([])
    players,              \* useState([])  PlayerWithRoles entries
    pendingSelects,       \* the selectBGGGame calls waiting for a fetch
    pendingAdds,          \* the handleAddGame calls waiting for addDoc
    gameSessions,         \* the documents of the gameSessions collection
    friendFetches,        \* the fetchFriends calls waiting for their reads
    formAlert,            \* the last alert the form showed, "none" at first
    \* ---- Profile (src/app/tabs/Profile.tsx:19-28)
    userDoc,              \* the users document of the signed-in user, Null when missing
    userDocVersion,       \* the number of writes the document has had
    snapshotDue,          \* onSnapshot has a state of the document to deliver
    userData,             \* useState(null)
    profileFriends,       \* useState([])  friends: the uids of the entries
    removals,             \* the handleRemoveFriend calls under way
    detailFetches,        \* the fetchFriendsDetails calls waiting for their reads
    otherWrites,          \* how many writes other clients have made
    profileAlert,         \* the last alert the profile showed, "none" at first
    \* ---- GameSessionDetails with edit handlers (src/app/GameSessionDetails/[id].tsx:51-66)
    editSession,          \* useState(null)  session, cut to the role lists
    editDoc,              \* the gameSessions document in the store
    participants,         \* useState([])  the uids of the participants listed
    pendingSaves,         \* the handleSaveChanges calls waiting for updateDoc
    editOpen,             \* the screen is shown: FALSE after router.back()
    editAlert,            \* the last alert the screen showed, "none" at first
    \* ---- SearchGameSessions (src/unnamed/part_002:39-45), one copy of the
    \*      state for each signed-in user with the screen open
    query,                \* useState('')
    sessions,             \* useState([])  the documents of the last snapshot
    filteredSessions,     \* useState([])  the sessions listed, each with Join Game
    friendIds,            \* useState([])  friends
    filter,               \* useState('all')
    pendingJoins,         \* the joinGame calls waiting for updateDoc
    joinAlert,            \* the last alert joinGame showed, "none" at first
    \* ---- BGGSearchInput (src/app/BGGSearchInput.tsx:11)
    searchResults         \* useState([])  the results the widget displays

searchVars == <<bggSearchTerm, bggResults, isSearching, searchRequestIdRef,
                requests, searchAlerts, settleOrder>>
resolverVars == <<term, items, sortedResults, previousResults, phase>>
detailsVars == <<session, sessionDoc, pendingUpdates, detailsAlert>>
formFields == <<title, location, gameTime, boardgamegeekID, players,
                minPlayers, maxPlayers>>
formVars == <<user, formFields, friends, pendingSelects, pendingAdds,
              gameSessions, friendFetches, formAlert>>
profileVars == <<userDoc, userDocVersion, snapshotDue, userData, profileFriends,
                 removals, detailFetches, otherWrites, profileAlert>>
editVars == <<editSession, editDoc, participants, pendingSaves, editOpen, editAlert>>
joinVars == <<query, sessions, filteredSessions, friendIds, filter,
              pendingJoins, joinAlert>>
widgetVars == <<searchResults>>
restVars == <<profileVars, editVars, joinVars, widgetVars>>
vars == <<searchVars, resolverVars, detailsVars, formVars, restVars>>

\* What the actions of one screen leave alone.
notSearchVars == <<resolverVars, detailsVars, formVars, restVars>>
notResolverVars == <<searchVars, detailsVars, formVars, restVars>>
notDetailsVars == <<searchVars, resolverVars, formVars, restVars>>
notFormVars == <<resolverVars, detailsVars, restVars>>
notProfileVars == <<searchVars, resolverVars, detailsVars, formVars, editVars,
                   joinVars, widgetVars>>
notEditVars == <<searchVars, resolverVars, detailsVars, formVars, profileVars,
                joinVars, widgetVars>>
notJoinVars == <<searchVars, resolverVars, detailsVars, profileVars, editVars,
                widgetVars>>
notWidgetVars == <<searchVars, resolverVars, detailsVars, formVars, profileVars,
                  editVars, joinVars>>

-----------------------------------------------------------------------------
(* JavaScript values *)

Null == [kind |-> "null"]
Undefined == [kind |-> "undefined"]
NaN == [kind |-> "NaN"]
Num(n) == [kind |-> "number", v |-> n]
Str(s) == [kind |-> "string", s |-> s]

Bool(b) == [kind |-> "boolean", b |-> b]
Array(a) == [kind |-> "array", a |-> a]

IsNum(x) == x.kind = "number"

\* ToNumber of a boolean, undefined or a number.
ToNumber(x) ==
    IF x.kind = "boolean" THEN Num(IF x.b THEN 1 ELSE 0)
    ELSE IF x.kind = "number" THEN x
    ELSE NaN

\* x + y for operands that are booleans, undefined or numbers.
Plus(x, y) ==
    LET a == ToNumber(x)
        b == ToNumber(y)
    IN  IF IsNum(a) /\ IsNum(b) THEN Num(a.v + b.v) ELSE NaN

\* x === n for a number n: NaN equals nothing.
StrictEqualsNumber(x, n) == IsNum(x) /\ x.v = n

\* Truthiness of a boolean or undefined.
Truthy(x) == x.kind = "boolean" /\ x.b

\* A string is truthy unless it is empty; null is falsy.
TruthyString(x) == x.kind = "string" /\ x.s # <<>>

\* Mutant of OrZero: a missing year ranked with the sentinel used for unranked
\* games instead of 0.
OrZeroAsSentinel(x) == IF IsNum(x) /\ x.v # 0 THEN x.v ELSE 100000

\* x || 0 for x a number, NaN, null or undefined: 0 and NaN are falsy too.
OrZero(x) == IF IsNum(x) /\ x.v # 0 THEN x.v ELSE 0

-----------------------------------------------------------------------------
(* Strings *)

UpperCase == <<"A","B","C","D","E","F","G","H","I","J","K","L","M",
               "N","O","P","Q","R","S","T","U","V","W","X","Y","Z">>
LowerCase == <<"a","b","c","d","e","f","g","h","i","j","k","l","m",
               "n","o","p","q","r","s","t","u","v","w","x","y","z">>
Digits == <<"0","1","2","3","4","5","6","7","8","9">>
WhiteSpace == {" "}

\* The lower-case letter of each upper-case letter.
LowerOf == [c \in {UpperCase[i] : i \in 1..Len(UpperCase)} |->
               LowerCase[CHOOSE i \in 1..Len(UpperCase) : UpperCase[i] = c]]

ToLowerChar(c) == IF c \in DOMAIN LowerOf THEN LowerOf[c] ELSE c

\* String.prototype.toLowerCase
ToLowerCase(s) == [i \in 1..Len(s) |-> ToLowerChar(s[i])]

\* Whether t occurs in s at the zero-based position p.
OccursAt(s, t, p) ==
    /\ p + Len(t) <= Len(s)
    /\ \A j \in 1..Len(t) : s[p + j] = t[j]

\* The first zero-based position of t in s at or after p, or -1.
RECURSIVE IndexFrom(_, _, _)
IndexFrom(s, t, p) ==
    IF p + Len(t) > Len(s) THEN -1
    ELSE IF OccursAt(s, t, p) THEN p
    ELSE IndexFrom(s, t, p + 1)

\* String.prototype.indexOf
IndexOf(s, t) == IndexFrom(s, t, 0)

\* String.prototype.includes
Includes(s, t) == IndexOf(s, t) >= 0

RECURSIVE TrimStart(_)
TrimStart(s) ==
    IF s # <<>> /\ Head(s) \in WhiteSpace THEN TrimStart(Tail(s)) ELSE s

RECURSIVE TrimEnd(_)
TrimEnd(s) ==
    IF s # <<>> /\ s[Len(s)] \in WhiteSpace
    THEN TrimEnd(SubSeq(s, 1, Len(s) - 1))
    ELSE s

\* String.prototype.trim
Trim(s) == TrimEnd(TrimStart(s))

\* The value of each decimal digit.
ValueOf == [c \in {Digits[i] : i \in 1..Len(Digits)} |->
               (CHOOSE i \in 1..Len(Digits) : Digits[i] = c) - 1]

IsDigit(c) == c \in DOMAIN ValueOf
DigitValue(c) == ValueOf[c]

\* The longest prefix of s made of digits.
RECURSIVE DigitPrefix(_)
DigitPrefix(s) ==
    IF s # <<>> /\ IsDigit(Head(s))
    THEN <<Head(s)>> \o DigitPrefix(Tail(s))
    ELSE <<>>

RECURSIVE DecimalValue(_)
DecimalValue(ds) ==
    IF ds = <<>> THEN 0
    ELSE 10 * DecimalValue(SubSeq(ds, 1, Len(ds) - 1)) + DigitValue(ds[Len(ds)])

\* parseInt(s, 10): leading white space, an optional sign, then digits; NaN
\* when no digit follows.
ParseInt(s) ==
    LET t == TrimStart(s)
        negative == t # <<>> /\ Head(t) = "-"
        signed == t # <<>> /\ Head(t) \in {"-", "+"}
        body == IF signed THEN Tail(t) ELSE t
        ds == DigitPrefix(body)
    IN  IF ds = <<>> THEN NaN
        ELSE Num(IF negative THEN 0 - DecimalValue(ds) ELSE DecimalValue(ds))

-----------------------------------------------------------------------------
(* The filter-and-sort step of searchBGG                                   *)
(*                                                                         *)
(* An <item> of the response is a record: id and name are what            *)
(* getAttribute gives (Str(..) or Null, Null also when the name element    *)
(* is missing), yearElement says whether a <yearpublished> element is      *)
(* there and yearValue is its value attribute.                             *)

Promo == <<"p","r","o","m","o">>

\* const year = yearElement ? parseInt(getAttribute("value") || "", 10) : null
ItemYear(item) ==
    IF ~item.yearElement THEN Null
    ELSE ParseInt(IF TruthyString(item.yearValue) THEN item.yearValue.s ELSE <<>>)

\* Mutant of IsPromo: the name compared with "promo" instead of searched.
IsPromoWholeName(lowerName) == lowerName = Promo

\* lowerName.includes("promo")
IsPromo(lowerName) == Includes(lowerName, Promo)

\* if (id && name): both attributes present and not the empty string
HasIdAndName(item) == TruthyString(item.id) /\ TruthyString(item.name)

\* Mutant of FilterItem: if (matchIndex) in place of if (matchIndex >= 0), so
\* that a match at position 0 is dropped.
FilterItemTruthyIndex(queryTerm, item) ==
    IF ~HasIdAndName(item) THEN <<>>
    ELSE LET lowerName == ToLowerCase(item.name.s)
             matchIndex == IndexOf(lowerName, ToLowerCase(queryTerm))
         IN  IF IsPromo(lowerName) THEN <<>>
             ELSE IF matchIndex > 0
                  THEN <<[id |-> item.id.s, name |-> item.name.s,
                          year |-> ItemYear(item), matchIndex |-> matchIndex,
                          titleLength |-> Len(item.name.s)]>>
                  ELSE <<>>

\* The body of the for loop for one item: the entries it pushes to results.
FilterItem(queryTerm, item) ==
    IF ~HasIdAndName(item) THEN <<>>
    ELSE LET lowerName == ToLowerCase(item.name.s)
             matchIndex == IndexOf(lowerName, ToLowerCase(queryTerm))
         IN  IF IsPromo(lowerName) THEN <<>>
             ELSE IF matchIndex >= 0
                  THEN <<[id |-> item.id.s, name |-> item.name.s,
                          year |-> ItemYear(item), matchIndex |-> matchIndex,
                          titleLength |-> Len(item.name.s)]>>
                  ELSE <<>>

\* for (const item of items) { ... results.push(...) }
RECURSIVE FilterLoop(_, _)
FilterLoop(queryTerm, its) ==
    IF its = <<>> THEN <<>>
    ELSE FilterItem(queryTerm, Head(its)) \o FilterLoop(queryTerm, Tail(its))

\* Mutant of Compare: the year compared oldest first.
CompareYearAscending(a, b) ==
    IF a.matchIndex # b.matchIndex THEN a.matchIndex - b.matchIndex
    ELSE IF OrZero(b.year) # OrZero(a.year) THEN OrZero(a.year) - OrZero(b.year)
    ELSE a.titleLength - b.titleLength

\* Mutant of Compare: the title length compared before the year.
CompareLengthBeforeYear(a, b) ==
    IF a.matchIndex # b.matchIndex THEN a.matchIndex - b.matchIndex
    ELSE IF a.titleLength # b.titleLength THEN a.titleLength - b.titleLength
    ELSE OrZero(b.year) - OrZero(a.year)

\* The comparator handed to sort: negative when a goes first.
Compare(a, b) ==
    IF a.matchIndex # b.matchIndex THEN a.matchIndex - b.matchIndex
    ELSE IF OrZero(b.year) # OrZero(a.year) THEN OrZero(b.year) - OrZero(a.year)
    ELSE a.titleLength - b.titleLength

\* Mutant of InsertSorted: an entry goes before the entries it ties with.
RECURSIVE InsertSortedBeforeTies(_, _)
InsertSortedBeforeTies(sorted, x) ==
    IF sorted = <<>> THEN <<x>>
    ELSE IF Compare(Head(sorted), x) >= 0 THEN <<x>> \o sorted
    ELSE <<Head(sorted)>> \o InsertSortedBeforeTies(Tail(sorted), x)

\* Array.prototype.sort is stable: an entry goes after every entry that does
\* not compare greater than it.
RECURSIVE InsertSorted(_, _)
InsertSorted(sorted, x) ==
    IF sorted = <<>> THEN <<x>>
    ELSE IF Compare(Head(sorted), x) > 0 THEN <<x>> \o sorted
    ELSE <<Head(sorted)>> \o InsertSorted(Tail(sorted), x)

RECURSIVE Sort(_)
Sort(rs) ==
    IF rs = <<>> THEN <<>>
    ELSE InsertSorted(Sort(SubSeq(rs, 1, Len(rs) - 1)), rs[Len(rs)])

\* .map((r) => ({ id: r.id, name: r.name, year: r.year }))
DropRankingFields(rs) ==
    [i \in 1..Len(rs) |-> [id |-> rs[i].id, name |-> rs[i].name, year |-> rs[i].year]]

\* Array.from(xmlDoc.getElementsByTagName('item')).slice(0, 10)
FirstItems(its) == SubSeq(its, 1, IF Len(its) < 10 THEN Len(its) ELSE 10)

\* From the items of the response to the value given to setBggResults.
FilterAndSort(queryTerm, its) ==
    DropRankingFields(Sort(FilterLoop(queryTerm, FirstItems(its))))

-----------------------------------------------------------------------------
(* Inputs: the catalog *)

MaxItems == 3

wCatan == <<"C","a","t","a","n">>
wSeafarers == <<"S","e","a","f","a","r","e","r","s">>
wPromo == <<"P","r","o","m","o">>
wCard == <<"C","a","r","d">>
wDice == <<"D","i","c","e">>
wJunior == <<"J","u","n","i","o","r">>
wRivalsFor == <<"R","i","v","a","l","s"," ","f","o","r">>
Sp == <<" ">>

Item(id, name, yearElement, yearValue) ==
    [id |-> id, name |-> name, yearElement |-> yearElement, yearValue |-> yearValue]

\* The catalog entries a response is drawn from.  Entry i has id i, but for
\* entry 10, an <item> without an id attribute.  Entry 5 has no
\* <yearpublished>, entry 6 the year 0 the catalog gives for an unknown
\* year, entry 9 a <yearpublished> with an empty value.
CatalogPool == <<
    Item(Str(<<"1">>), Str(wCatan), TRUE, Str(<<"1","9","9","5">>)),
    Item(Str(<<"2">>), Str(wCatan \o <<":">> \o Sp \o wSeafarers), TRUE, Str(<<"1","9","9","7">>)),
    Item(Str(<<"3">>), Str(wCatan \o Sp \o wPromo \o Sp \o wCard), TRUE, Str(<<"2","0","1","0">>)),
    Item(Str(<<"4">>), Str(wCatan), TRUE, Str(<<"1","9","9","5">>)),
    Item(Str(<<"5">>), Str(<<"C","A","T","A","N">>), FALSE, Null),
    Item(Str(<<"6">>), Str(wCatan \o Sp \o wDice), TRUE, Str(<<"0">>)),
    Item(Str(<<"7">>), Str(wRivalsFor \o Sp \o wCatan), TRUE, Str(<<"2","0","1","0">>)),
    Item(Str(<<"8">>), Str(wPromo), TRUE, Str(<<"2","0","2","0">>)),
    Item(Str(<<"9">>), Str(wCatan \o Sp \o wJunior), TRUE, Str(<<>>)),
    Item(Null, Str(wCatan), TRUE, Str(<<"1","9","9","5">>)) >>

\* The sequences of at most n distinct pool entries, as sequences of indices.
RECURSIVE IndexSeqs(_)
IndexSeqs(n) ==
    IF n = 0 THEN {<<>>}
    ELSE LET shorter == IndexSeqs(n - 1)
         IN  shorter \cup
             {Append(q, i) : q \in {r \in shorter : Len(r) = n - 1},
                             i \in 1..Len(CatalogPool)}

Distinct(q) == \A i, j \in 1..Len(q) : i # j => q[i] # q[j]

\* What Array.from(getElementsByTagName('item')).slice(0, 10) can be, cut to
\* MaxItems items.
Responses ==
    {[k \in 1..Len(q) |-> CatalogPool[q[k]]] : q \in {r \in IndexSeqs(MaxItems) : Distinct(r)}}

\* The non-blank terms typed into the search field.
Terms == { <<"c","a","t","a","n">>, wCatan, wPromo, wCatan \o Sp }

\* if (!term.trim())
Blank(t) == Trim(t) = <<>>

-----------------------------------------------------------------------------
(* The filter-and-sort step taken alone: lines 156-219 of searchBGG, run   *)
(* on one term and one response.                                           *)

SearchIdle ==
    /\ bggSearchTerm = <<>>
    /\ bggResults = <<>>
    /\ isSearching = FALSE
    /\ searchRequestIdRef = 0
    /\ requests = <<>>
    /\ searchAlerts = {}
    /\ settleOrder = <<>>

\* The filter-and-sort step not under study.
ResolverIdle ==
    /\ term = <<>>
    /\ items = <<>>
    /\ sortedResults = <<>>
    /\ previousResults = <<>>
    /\ phase = "idle"

\* The session details screen not opened.
DetailsIdle ==
    /\ session = Null
    /\ sessionDoc = Null
    /\ pendingUpdates = <<>>
    /\ detailsAlert = "none"

\* The state of the Add Game Session form as mounted.
FormStateIdle ==
    /\ boardgamegeekID = <<>>
    /\ title = <<>>
    /\ location = <<>>
    /\ gameTime = "now"
    /\ minPlayers = Num(2)
    /\ maxPlayers = Num(4)
    /\ friends = <<>>
    /\ players = <<>>
    /\ pendingSelects = <<>>
    /\ pendingAdds = <<>>
    /\ gameSessions = <<>>
    /\ friendFetches = 0
    /\ formAlert = "none"

\* The Add Game Session form as mounted, nobody signed in yet.
FormIdle ==
    /\ user = Null
    /\ FormStateIdle

\* The profile screen not opened.
ProfileIdle ==
    /\ userDoc = Null
    /\ userDocVersion = 0
    /\ snapshotDue = FALSE
    /\ userData = Null
    /\ profileFriends = <<>>
    /\ removals = <<>>
    /\ detailFetches = <<>>
    /\ otherWrites = 0
    /\ profileAlert = "none"

\* The session details screen with edit handlers not opened.
EditIdle ==
    /\ editSession = Null
    /\ editDoc = Null
    /\ participants = <<>>
    /\ pendingSaves = <<>>
    /\ editOpen = FALSE
    /\ editAlert = "none"

\* The users with the Search Game Sessions screen open.
JoinUsers == {"u1", "u3"}

\* The Search Game Sessions screen as mounted, nothing delivered yet.
JoinIdle ==
    /\ query = [c \in JoinUsers |-> <<>>]
    /\ sessions = [c \in JoinUsers |-> <<>>]
    /\ filteredSessions = [c \in JoinUsers |-> <<>>]
    /\ friendIds = [c \in JoinUsers |-> <<>>]
    /\ filter = [c \in JoinUsers |-> "all"]
    /\ pendingJoins = <<>>
    /\ joinAlert = [c \in JoinUsers |-> "none"]

\* The BGGSearchInput widget as mounted.
WidgetIdle == searchResults = <<>>

\* The screens added after the form, not opened.
RestIdle == ProfileIdle /\ EditIdle /\ JoinIdle /\ WidgetIdle

InitResolver ==
    /\ SearchIdle
    /\ DetailsIdle
    /\ FormIdle
    /\ RestIdle
    /\ term \in Terms
    /\ items \in Responses
    /\ sortedResults = <<>>
    /\ previousResults = <<>>
    /\ phase = "fetched"

\* Mutant of Resolve: the filter loop takes the first item off the response
\* it was given.
ResolveShiftingItems ==
    /\ phase \in {"fetched", "resolved"}
    /\ previousResults' = sortedResults
    /\ sortedResults' = FilterAndSort(term, items)
    /\ items' = IF items = <<>> THEN <<>> ELSE Tail(items)
    /\ phase' = IF phase = "fetched" THEN "resolved" ELSE "resolved again"
    /\ UNCHANGED <<term, notResolverVars>>

\* The step, run on the term and the response; it can be run a second time
\* on the same term and response.
Resolve ==
    /\ phase \in {"fetched", "resolved"}
    /\ previousResults' = sortedResults
    /\ sortedResults' = FilterAndSort(term, items)
    /\ phase' = IF phase = "fetched" THEN "resolved" ELSE "resolved again"
    /\ UNCHANGED <<term, items, notResolverVars>>

NextResolver == Resolve

SpecResolver == InitResolver /\ [][NextResolver]_vars

-----------------------------------------------------------------------------
(* searchBGG of the Add Game Session screen, with its fetches in flight.   *)
(*                                                                         *)
(* requests[id] is the call that drew request id: its term, whether its    *)
(* fetch is pending, resolved or rejected, and the items of the response   *)
(* once resolved.  The continuation after the two awaits runs in one step: *)
(* nothing is written between the fetch and response.text().               *)

MaxRequests == 3

\* What is typed into the search field: the empty term, a term of white
\* space and a term that is not blank.
TypedTerms == { <<>>, Sp, <<"c","a","t","a","n">> }

\* The responses the catalog gives while the screen is open.
SearchResponses == {
    <<CatalogPool[1], CatalogPool[2], CatalogPool[3]>>,
    <<CatalogPool[7], CatalogPool[5]>> }

InitSearch ==
    /\ SearchIdle
    /\ ResolverIdle
    /\ DetailsIdle
    /\ FormIdle
    /\ RestIdle

\* Mutant of IsOutdated: the response of a superseded request is not ignored.
IsOutdatedNever(currentRequestId) == FALSE

\* if (currentRequestId !== searchRequestIdRef.current)
IsOutdated(currentRequestId) == currentRequestId # searchRequestIdRef

\* searchBGG(t) up to its first await.
SearchBGG(t) ==
    /\ bggSearchTerm' = t
    /\ IF Blank(t)
       THEN /\ bggResults' = <<>>
            /\ UNCHANGED <<isSearching, searchRequestIdRef, requests>>
       ELSE /\ searchRequestIdRef < MaxRequests
            /\ searchRequestIdRef' = searchRequestIdRef + 1
            /\ isSearching' = TRUE
            /\ requests' = Append(requests,
                                  [term |-> t, status |-> "pending", response |-> <<>>])
            /\ UNCHANGED bggResults
    /\ UNCHANGED <<searchAlerts, settleOrder, notSearchVars>>

\* The fetch of request id gave a response with these items: the rest of the
\* try block, then finally.
FetchResolves(id, its) ==
    /\ id \in 1..Len(requests)
    /\ requests[id].status = "pending"
    /\ requests' = [requests EXCEPT ![id].status = "resolved", ![id].response = its]
    /\ settleOrder' = Append(settleOrder, id)
    /\ IF IsOutdated(id)
       THEN UNCHANGED bggResults
       ELSE bggResults' = FilterAndSort(requests[id].term, its)
    /\ isSearching' = FALSE
    /\ UNCHANGED <<bggSearchTerm, searchRequestIdRef, searchAlerts, notSearchVars>>

\* Mutant of FetchRejects: the catch block clears the displayed results.
FetchRejectsClearing(id) ==
    /\ id \in 1..Len(requests)
    /\ requests[id].status = "pending"
    /\ requests' = [requests EXCEPT ![id].status = "rejected"]
    /\ settleOrder' = Append(settleOrder, id)
    /\ searchAlerts' = searchAlerts \cup {id}
    /\ isSearching' = FALSE
    /\ bggResults' = <<>>
    /\ UNCHANGED <<bggSearchTerm, searchRequestIdRef, notSearchVars>>

\* The fetch of request id, or response.text(), was rejected: catch, then
\* finally.
FetchRejects(id) ==
    /\ id \in 1..Len(requests)
    /\ requests[id].status = "pending"
    /\ requests' = [requests EXCEPT ![id].status = "rejected"]
    /\ settleOrder' = Append(settleOrder, id)
    /\ searchAlerts' = searchAlerts \cup {id}
    /\ isSearching' = FALSE
    /\ UNCHANGED <<bggSearchTerm, bggResults, searchRequestIdRef, notSearchVars>>

NextSearch ==
    \/ \E t \in TypedTerms : SearchBGG(t)
    \/ \E id \in 1..MaxRequests, its \in SearchResponses : FetchResolves(id, its)
    \/ \E id \in 1..MaxRequests : FetchRejects(id)

SpecSearch == InitSearch /\ [][NextSearch]_vars

\* What request id's response resolves to.
Resolution(id) == FilterAndSort(requests[id].term, requests[id].response)

\* The fetch of request id settles in this step.
Settles(id) ==
    /\ id \in 1..Len(requests)
    /\ requests[id].status = "pending"
    /\ requests'[id].status # "pending"

Superseded(id) == id # searchRequestIdRef

C1_LatestShown ==
    (searchRequestIdRef > 0 /\ requests[searchRequestIdRef].status = "resolved")
        => bggResults \in {<<>>, Resolution(searchRequestIdRef)}

C1_ResponseStep ==
    \A id \in 1..MaxRequests :
        (Settles(id) /\ requests'[id].status = "resolved") =>
            bggResults' = IF Superseded(id) THEN bggResults
                          ELSE FilterAndSort(requests[id].term, requests'[id].response)

\* C1: a response updates the displayed results only if its request id is
\* the id of the most recently dispatched request, and then to its
\* resolution; once the most recent request has resolved, the displayed
\* results are its resolution (or were cleared), whatever resolves later.
C1_StaleResponseDiscarded == []C1_LatestShown /\ [][C1_ResponseStep]_vars

\* C1's case: requests 1 and 2 were dispatched, 2 resolved first, then 1, to
\* different results, and the results of request 2 are displayed.
C1_Witness ==
    /\ searchRequestIdRef = 2
    /\ settleOrder = <<2, 1>>
    /\ requests[1].status = "resolved" /\ requests[2].status = "resolved"
    /\ Resolution(1) # <<>>
    /\ Resolution(1) # Resolution(2)
    /\ bggResults = Resolution(2)
    /\ bggResults # <<>>

\* C5 as stated: while the search field is blank, the displayed results are
\* empty: a blank term clears them and they stay empty until a term that is
\* not blank is dispatched.
C5_BlankTermShowsNothing == Blank(bggSearchTerm) => bggResults = <<>>

\* C11: when the fetch of the most recently dispatched request is rejected,
\* an error alert is shown for it and the displayed results stay what they
\* were.
C11_LatestFailureAlertsAndKeeps ==
    [][\A id \in 1..MaxRequests :
          (Settles(id) /\ ~Superseded(id) /\ requests'[id].status = "rejected") =>
              /\ id \in searchAlerts'
              /\ id \notin searchAlerts
              /\ bggResults' = bggResults]_vars

\* C11's case: request 1 resolved and its results are displayed; request 2,
\* the most recent, was rejected after that and alerted.
C11_Witness ==
    /\ searchRequestIdRef = 2
    /\ settleOrder = <<1, 2>>
    /\ requests[1].status = "resolved"
    /\ requests[2].status = "rejected"
    /\ searchAlerts = {2}
    /\ bggResults = Resolution(1)
    /\ bggResults # <<>>

\* C8 as stated: a superseded request that settles, resolved or rejected,
\* shows no alert and leaves the displayed results as they are.
C8_SupersededSilent ==
    [][\A id \in 1..MaxRequests :
          (Settles(id) /\ Superseded(id)) =>
              /\ searchAlerts' = searchAlerts
              /\ bggResults' = bggResults]_vars

\* The derived ranking keys of an output entry.
MatchIndexOf(r) == IndexOf(ToLowerCase(r.name), ToLowerCase(term))

\* C2: every item of the output has a name that contains the query as a
\* case-insensitive substring, and no name contains "promo" in any case.
C2_OutputMatchesAndNoPromo ==
    phase = "resolved" =>
        \A i \in 1..Len(sortedResults) :
            /\ Includes(ToLowerCase(sortedResults[i].name), ToLowerCase(term))
            /\ ~Includes(ToLowerCase(sortedResults[i].name), Promo)

\* C2's case: a response with a promo entry and an entry that does not match
\* has gone through the step and something was kept.
C2_Witness ==
    /\ phase = "resolved"
    /\ sortedResults # <<>>
    /\ Len(sortedResults) < Len(items)
    /\ \E i \in 1..Len(items) :
          TruthyString(items[i].name) /\ Includes(ToLowerCase(items[i].name.s), Promo)
    /\ \E i \in 1..Len(items) :
          TruthyString(items[i].name)
          /\ ~Includes(ToLowerCase(items[i].name.s), ToLowerCase(term))

\* C3: in every output, each adjacent pair (a, b) has a.matchIndex <=
\* b.matchIndex; on equal matchIndex (a.year || 0) >= (b.year || 0); on both
\* equal a.name.length <= b.name.length.
C3_AdjacentPairsOrdered ==
    phase = "resolved" =>
        \A i \in 1..(Len(sortedResults) - 1) :
            LET a == sortedResults[i]
                b == sortedResults[i + 1]
            IN  /\ MatchIndexOf(a) <= MatchIndexOf(b)
                /\ MatchIndexOf(a) = MatchIndexOf(b) => OrZero(a.year) >= OrZero(b.year)
                /\ (MatchIndexOf(a) = MatchIndexOf(b) /\ OrZero(a.year) = OrZero(b.year))
                      => Len(a.name) <= Len(b.name)

\* C3's case: three entries survived, the sort moved them, and the output
\* has a pair decided by the year and a pair decided by the match position.
C3_Witness ==
    /\ phase = "resolved"
    /\ Len(sortedResults) = 3
    /\ sortedResults # DropRankingFields(FilterLoop(term, FirstItems(items)))
    /\ MatchIndexOf(sortedResults[1]) = MatchIndexOf(sortedResults[2])
    /\ OrZero(sortedResults[1].year) > OrZero(sortedResults[2].year)
    /\ MatchIndexOf(sortedResults[2]) < MatchIndexOf(sortedResults[3])

\* The scenario of C4: query "catan" and the candidates 1 "Catan" 1995,
\* 2 "Catan: Seafarers" 1997, 3 "Catan Promo Card" 2010, in that order.
CatanScenario ==
    /\ term = <<"c","a","t","a","n">>
    /\ items = <<CatalogPool[1], CatalogPool[2], CatalogPool[3]>>

OutputIds == [i \in 1..Len(sortedResults) |-> sortedResults[i].id]

\* C4 as stated: the scenario's output is exactly [id 1, id 2].
C4_Original ==
    (phase = "resolved" /\ CatanScenario) => OutputIds = << <<"1">>, <<"2">> >>

\* C4 as amended: the scenario's output is exactly [id 2, id 1]: id 3 is
\* dropped as promotional, and id 2 (1997) precedes id 1 (1995) because the
\* publication year, newer first, is compared before the name length.
C4_ScenarioOutput ==
    (phase = "resolved" /\ CatanScenario) =>
        sortedResults = << [id |-> <<"2">>, name |-> CatalogPool[2].name.s, year |-> Num(1997)],
                           [id |-> <<"1">>, name |-> CatalogPool[1].name.s, year |-> Num(1995)] >>

C4_Witness == phase = "resolved" /\ CatanScenario

\* A response of one candidate, with an id, whose name is the query itself.
SingleExactMatch ==
    /\ Len(items) = 1
    /\ TruthyString(items[1].id)
    /\ items[1].name = Str(term)

TheCandidate ==
    [id |-> items[1].id.s, name |-> items[1].name.s, year |-> ItemYear(items[1])]

\* C6 as stated: a single candidate whose name exactly matches the query
\* yields the singleton output of that candidate.
C6_Original ==
    (phase = "resolved" /\ SingleExactMatch) => sortedResults = <<TheCandidate>>

\* C6 as amended: the same, for a query that does not contain "promo" in any
\* case.
C6_SingleExactMatchKept ==
    (phase = "resolved" /\ SingleExactMatch /\ ~Includes(ToLowerCase(term), Promo))
        => sortedResults = <<TheCandidate>>

C6_Witness ==
    /\ phase = "resolved"
    /\ SingleExactMatch
    /\ ~Includes(ToLowerCase(term), Promo)
    /\ Len(sortedResults) = 1

\* Entry i of the output is ranked before entry j.
TiedOnMatchIndex(i, j) == MatchIndexOf(sortedResults[i]) = MatchIndexOf(sortedResults[j])

\* C7 as stated: of two output entries tied on matchIndex, one with a known
\* year and one without, the one with the known year comes first.
C7_Original ==
    phase = "resolved" =>
        \A i, j \in 1..Len(sortedResults) :
            (/\ TiedOnMatchIndex(i, j)
             /\ IsNum(sortedResults[i].year)
             /\ ~IsNum(sortedResults[j].year)) => i < j

\* C7 as amended: the same, for a known year that is positive.
C7_KnownPositiveYearFirst ==
    phase = "resolved" =>
        \A i, j \in 1..Len(sortedResults) :
            (/\ TiedOnMatchIndex(i, j)
             /\ IsNum(sortedResults[i].year)
             /\ sortedResults[i].year.v > 0
             /\ ~IsNum(sortedResults[j].year)) => i < j

\* C7's case: the response had the candidate without a year first and the
\* one with a positive year, and a longer name, after it.
C7_Witness ==
    /\ phase = "resolved"
    /\ Len(items) = 2 /\ Len(sortedResults) = 2
    /\ sortedResults[1].id = items[2].id.s
    /\ TiedOnMatchIndex(1, 2)
    /\ IsNum(sortedResults[1].year) /\ sortedResults[1].year.v > 0
    /\ sortedResults[2].year = Null
    /\ Len(sortedResults[1].name) > Len(sortedResults[2].name)

PlaceInResponse(id) == CHOOSE k \in 1..Len(items) : items[k].id = Str(id)

\* Two output entries the three sort keys do not tell apart.
TiedOnAllKeys(i, j) ==
    /\ MatchIndexOf(sortedResults[i]) = MatchIndexOf(sortedResults[j])
    /\ OrZero(sortedResults[i].year) = OrZero(sortedResults[j].year)
    /\ Len(sortedResults[i].name) = Len(sortedResults[j].name)

\* C13: two output entries tied on matchIndex, year (missing as 0) and name
\* length are in the order their items had in the catalog response.
C13_TiesKeepResponseOrder ==
    phase = "resolved" =>
        \A i, j \in 1..Len(sortedResults) :
            (i < j /\ TiedOnAllKeys(i, j)) =>
                PlaceInResponse(sortedResults[i].id) < PlaceInResponse(sortedResults[j].id)

\* C13's case: items 4 and 1, both "Catan" of 1995, came in that order with
\* an item between them that sorts first; the output has 4 before 1.
C13_Witness ==
    /\ phase = "resolved"
    /\ items = <<CatalogPool[4], CatalogPool[2], CatalogPool[1]>>
    /\ OutputIds = << <<"2">>, <<"4">>, <<"1">> >>
    /\ TiedOnAllKeys(2, 3)

-----------------------------------------------------------------------------
(* toggleRole of the session details screen (src/unnamed/part_005).        *)
(*                                                                         *)
(* A session is Null or a record of its three role lists, each Undefined   *)
(* or Array(<<uid, ...>>), as the GameSession type allows.  A call of      *)
(* toggleRole runs up to its await in one step; the update then resolves   *)
(* or is rejected in a later step.                                         *)

Uids == {"u1", "u2"}
Roles == {"hosts", "teachers", "players"}

\* The lists of uids without repetition.
UidLists ==
    {<<>>} \cup {<<u>> : u \in Uids}
           \cup {l \in {<<u, v>> : u \in Uids, v \in Uids} : l[1] # l[2]}

OptionalLists == {Undefined} \cup {Array(l) : l \in UidLists}

\* type GameSession, cut to the role lists
GameSessions == [hosts : OptionalLists, teachers : OptionalLists, players : OptionalLists]

\* list?.includes(uid)
OptIncludes(list, uid) ==
    IF list.kind = "array"
    THEN Bool(\E i \in 1..Len(list.a) : list.a[i] = uid)
    ELSE Undefined

\* list.includes(uid)
ListIncludes(list, uid) == \E k \in 1..Len(list) : list[k] = uid

\* list.filter((id) => id !== uid)
RECURSIVE Without(_, _)
Without(l, uid) ==
    IF l = <<>> THEN <<>>
    ELSE IF Head(l) = uid THEN Without(Tail(l), uid)
    ELSE <<Head(l)>> \o Without(Tail(l), uid)

\* session.hosts?.includes(uid) + session.teachers?.includes(uid)
\*     + session.players?.includes(uid) === 1
IsLastRole(s, uid) ==
    StrictEqualsNumber(
        Plus(Plus(OptIncludes(s.hosts, uid), OptIncludes(s.teachers, uid)),
             OptIncludes(s.players, uid)),
        1)

\* session[role]?.includes(uid) ? session[role]?.filter(..) : [...(session[role] || []), uid]
UpdatedRoles(s, uid, role) ==
    IF Truthy(OptIncludes(s[role], uid))
    THEN Array(Without(s[role].a, uid))
    ELSE Array((IF s[role].kind = "array" THEN s[role].a ELSE <<>>) \o <<uid>>)

\* The screen after fetchSession: the document, when there is one, is the
\* session shown.
InitDetails ==
    /\ SearchIdle
    /\ ResolverIdle
    /\ FormIdle
    /\ RestIdle
    /\ sessionDoc \in GameSessions \cup {Null}
    /\ session = sessionDoc
    /\ pendingUpdates = <<>>
    /\ detailsAlert = "none"

\* toggleRole(uid, role) up to await updateDoc.
ToggleRole(uid, role) ==
    /\ IF session = Null
       THEN UNCHANGED <<pendingUpdates, detailsAlert>>
       ELSE IF IsLastRole(session, uid) /\ Truthy(OptIncludes(session[role], uid))
       THEN /\ detailsAlert' = "A player must have at least one role."
            /\ UNCHANGED pendingUpdates
       ELSE /\ pendingUpdates' = Append(pendingUpdates,
                                        [role |-> role,
                                         updatedRoles |-> UpdatedRoles(session, uid, role)])
            /\ UNCHANGED detailsAlert
    /\ UNCHANGED <<session, sessionDoc, notDetailsVars>>

RemoveAt(q, i) == SubSeq(q, 1, i - 1) \o SubSeq(q, i + 1, Len(q))

\* updateDoc of the i-th waiting call wrote the field; setSession follows.
UpdateDocResolves(i) ==
    /\ i \in 1..Len(pendingUpdates)
    /\ sessionDoc # Null
    /\ LET u == pendingUpdates[i]
       IN  /\ sessionDoc' = [sessionDoc EXCEPT ![u.role] = u.updatedRoles]
           /\ session' = IF session = Null THEN session
                         ELSE [session EXCEPT ![u.role] = u.updatedRoles]
    /\ pendingUpdates' = RemoveAt(pendingUpdates, i)
    /\ UNCHANGED <<detailsAlert, notDetailsVars>>

\* updateDoc of the i-th waiting call was rejected: the catch block.
UpdateDocRejects(i) ==
    /\ i \in 1..Len(pendingUpdates)
    /\ detailsAlert' = "Could not update roles."
    /\ pendingUpdates' = RemoveAt(pendingUpdates, i)
    /\ UNCHANGED <<session, sessionDoc, notDetailsVars>>

\* One call at a time: a call is started when none is waiting.
NextDetails ==
    \/ \E uid \in Uids, role \in Roles : pendingUpdates = <<>> /\ ToggleRole(uid, role)
    \/ UpdateDocResolves(1)
    \/ UpdateDocRejects(1)

SpecDetails == InitDetails /\ [][NextDetails]_vars

\* uid is in one of the role lists of s.
HoldsRole(s, uid) ==
    /\ s # Null
    /\ \E role \in Roles : Truthy(OptIncludes(s[role], uid))

\* C9 as stated: after completed toggleRole calls, on any session the type
\* allows, a uid that held a role still holds one, in the stored document
\* and in the session shown.
C9_RoleKept ==
    [][\A uid \in Uids :
          /\ HoldsRole(sessionDoc, uid) => HoldsRole(sessionDoc', uid)
          /\ HoldsRole(session, uid) => HoldsRole(session', uid)]_vars

\* How many toggleRole calls wait for updateDoc at a time.
MaxUpdates == 2

\* The sessions with all three role lists present in which u1 holds exactly
\* two roles.
TwoRoleSessions ==
    {s \in [hosts : {Array(l) : l \in UidLists},
            teachers : {Array(l) : l \in UidLists},
            players : {Array(l) : l \in UidLists}] :
        Cardinality({role \in Roles : Truthy(OptIncludes(s[role], "u1"))}) = 2}

\* The screen after fetchSession, on such a session.
InitOverlap ==
    /\ SearchIdle
    /\ ResolverIdle
    /\ FormIdle
    /\ RestIdle
    /\ sessionDoc \in TwoRoleSessions
    /\ session = sessionDoc
    /\ pendingUpdates = <<>>
    /\ detailsAlert = "none"

\* A call can be started while earlier calls wait for updateDoc.
NextOverlap ==
    \/ \E uid \in Uids, role \in Roles :
          Len(pendingUpdates) < MaxUpdates /\ ToggleRole(uid, role)
    \/ \E i \in 1..MaxUpdates : UpdateDocResolves(i)
    \/ \E i \in 1..MaxUpdates : UpdateDocRejects(i)

SpecOverlap == InitOverlap /\ [][NextOverlap]_vars

\* C16 as stated: u1, who held two roles when the screen opened, holds at
\* least one role in the stored document and in the session shown whenever
\* no toggleRole call is waiting, also when calls overlapped.
C16_RoleKeptWhenCallsOverlap ==
    pendingUpdates = <<>> =>
        /\ HoldsRole(sessionDoc, "u1")
        /\ HoldsRole(session, "u1")

-----------------------------------------------------------------------------
(* The Add Game Session form (src/unnamed/part_001): the fields, the       *)
(* effect on user, selectBGGGame, addPlayer and handleAddGame.  An async   *)
(* handler runs up to its await in one step and goes on, in a later step,  *)
(* when the awaited call resolves or is rejected.  SpecAddGame follows one *)
(* sign-in and leaves the read of the friend list in flight: the friend    *)
(* list feeds addPlayer only.                                              *)

MaxPlayers == 2
MaxSessions == 2
MaxPendingAdds == 1

\* The account that signs in; it has no display name.
Account == [uid |-> "u1", displayName |-> Null]

\* The friends the user document of the account lists, with their names.
FriendsOfAccount == << [uid |-> "u2", name |-> "Bo"] >>

\* What is typed into the title and location fields, and the texts typed
\* into the Min and Max fields.
TypedTitles == { <<"T">> }
TypedLocations == { <<"L">> }
TypedMin == { <<"5">> }
TypedMax == { <<"6">> }

\* What /thing gives for minplayers and maxplayers: both, or neither.
DetailResponses == {
    [minplayers |-> Str(<<"3">>), maxplayers |-> Str(<<"4">>)],
    [minplayers |-> Null, maxplayers |-> Null] }

\* Number(value) for the text of a numeric field: 0 for a blank text.
NumberOf(text) ==
    LET t == Trim(text)
    IN  IF t = <<>> THEN Num(0)
        ELSE IF DigitPrefix(t) = t THEN Num(DecimalValue(t))
        ELSE NaN

\* x > y: false when either side is NaN.
GreaterThan(x, y) == IsNum(x) /\ IsNum(y) /\ x.v > y.v

\* What the search whose results the form shows at first was answered.
ShownResponse == << CatalogPool[1] >>

\* The screen with nobody signed in yet, after one search has resolved and
\* its results are displayed.
InitAddGame ==
    /\ FormIdle
    /\ RestIdle
    /\ ResolverIdle
    /\ DetailsIdle
    /\ requests = <<[term |-> <<"c","a","t","a","n">>, status |-> "resolved",
                     response |-> ShownResponse]>>
    /\ bggResults = FilterAndSort(<<"c","a","t","a","n">>, ShownResponse)
    /\ bggSearchTerm = <<"c","a","t","a","n">>
    /\ isSearching = FALSE
    /\ searchRequestIdRef = 1
    /\ searchAlerts = {}
    /\ settleOrder = <<1>>

\* The entry the effect on user adds for the creating user.
CreatorEntry(u) ==
    [uid |-> u.uid,
     name |-> IF u.displayName = Null THEN "You" ELSE u.displayName,
     isHost |-> FALSE, isTeacher |-> FALSE, isOwner |-> TRUE, isPlayer |-> TRUE]

\* useAuth() gives another user: the effect on [user] runs.
AuthStateChanged(u) ==
    /\ u # user
    /\ user' = u
    /\ IF u = Null
       THEN UNCHANGED <<players, friendFetches>>
       ELSE /\ Len(players) < MaxPlayers
            /\ players' = Append(players, CreatorEntry(u))
            /\ friendFetches' = friendFetches + 1
    /\ UNCHANGED <<title, location, gameTime, boardgamegeekID, minPlayers, maxPlayers,
                   friends, pendingSelects, pendingAdds, gameSessions, formAlert,
                   searchVars, notFormVars>>

\* fetchFriends read the user document and the friends' documents.
FetchFriendsResolves ==
    /\ friendFetches > 0
    /\ friendFetches' = friendFetches - 1
    /\ friends' = FriendsOfAccount
    /\ UNCHANGED <<user, formFields, pendingSelects, pendingAdds, gameSessions,
                   formAlert, searchVars, notFormVars>>

\* A read of fetchFriends was rejected: its catch block.
FetchFriendsRejects ==
    /\ friendFetches > 0
    /\ friendFetches' = friendFetches - 1
    /\ formAlert' = "Could not fetch friends."
    /\ UNCHANGED <<user, formFields, friends, pendingSelects, pendingAdds,
                   gameSessions, searchVars, notFormVars>>

\* onChangeText={setTitle}
SetTitle(t) ==
    /\ title' = t
    /\ UNCHANGED <<user, location, gameTime, boardgamegeekID, players, minPlayers,
                   maxPlayers, friends, pendingSelects, pendingAdds, gameSessions,
                   friendFetches, formAlert, searchVars, notFormVars>>

\* onChangeText={setLocation}
SetLocation(l) ==
    /\ location' = l
    /\ UNCHANGED <<user, title, gameTime, boardgamegeekID, players, minPlayers,
                   maxPlayers, friends, pendingSelects, pendingAdds, gameSessions,
                   friendFetches, formAlert, searchVars, notFormVars>>

\* onChangeGameTime with a selected date
OnChangeGameTime ==
    /\ gameTime' = "picked"
    /\ UNCHANGED <<user, title, location, boardgamegeekID, players, minPlayers,
                   maxPlayers, friends, pendingSelects, pendingAdds, gameSessions,
                   friendFetches, formAlert, searchVars, notFormVars>>

\* onChangeText={(value) => setMinPlayers(Number(value))}
SetMinPlayers(text) ==
    /\ minPlayers' = NumberOf(text)
    /\ UNCHANGED <<user, title, location, gameTime, boardgamegeekID, players,
                   maxPlayers, friends, pendingSelects, pendingAdds, gameSessions,
                   friendFetches, formAlert, searchVars, notFormVars>>

\* onChangeText={(value) => setMaxPlayers(Number(value))}
SetMaxPlayers(text) ==
    /\ maxPlayers' = NumberOf(text)
    /\ UNCHANGED <<user, title, location, gameTime, boardgamegeekID, players,
                   minPlayers, friends, pendingSelects, pendingAdds, gameSessions,
                   friendFetches, formAlert, searchVars, notFormVars>>

\* addPlayer(friend), for a friend in the list shown.
AddPlayer(k) ==
    /\ k \in 1..Len(friends)
    /\ IF \E i \in 1..Len(players) : players[i].uid = friends[k].uid
       THEN /\ formAlert' = "This player is already added."
            /\ UNCHANGED players
       ELSE /\ players' = Append(players,
                                 [uid |-> friends[k].uid, name |-> friends[k].name,
                                  isHost |-> FALSE, isTeacher |-> FALSE,
                                  isOwner |-> FALSE, isPlayer |-> TRUE])
            /\ UNCHANGED formAlert
    /\ UNCHANGED <<user, title, location, gameTime, boardgamegeekID, minPlayers,
                   maxPlayers, friends, pendingSelects, pendingAdds, gameSessions,
                   friendFetches, searchVars, notFormVars>>

\* The name the catalog gives for a game id: what fetchBGGTitle returns.
CatalogTitle(id) ==
    CatalogPool[CHOOSE i \in 1..Len(CatalogPool) : CatalogPool[i].id = Str(id)].name.s

\* selectBGGGame(game), for the k-th displayed result, up to its first await.
SelectBGGGame(k) ==
    /\ k \in 1..Len(bggResults)
    /\ boardgamegeekID' = bggResults[k].id
    /\ title' = bggResults[k].name
    /\ bggSearchTerm' = <<>>
    /\ bggResults' = <<>>
    /\ pendingSelects' = Append(pendingSelects, [id |-> bggResults[k].id, stage |-> "title"])
    /\ UNCHANGED <<user, location, gameTime, players, minPlayers, maxPlayers, friends,
                   pendingAdds, gameSessions, friendFetches, formAlert,
                   isSearching, searchRequestIdRef, requests, searchAlerts, settleOrder,
                   notFormVars>>

\* fetchBGGTitle and fetchBGGImage of the i-th waiting call resolved.
SelectTitleFetched(i) ==
    /\ i \in 1..Len(pendingSelects)
    /\ pendingSelects[i].stage = "title"
    /\ title' = CatalogTitle(pendingSelects[i].id)
    /\ pendingSelects' = [pendingSelects EXCEPT ![i].stage = "details"]
    /\ UNCHANGED <<user, location, gameTime, boardgamegeekID, players, minPlayers,
                   maxPlayers, friends, pendingAdds, gameSessions, friendFetches,
                   formAlert, searchVars, notFormVars>>

\* The /thing fetch of the i-th waiting call resolved with these details.
SelectDetailsFetched(i, d) ==
    /\ i \in 1..Len(pendingSelects)
    /\ pendingSelects[i].stage = "details"
    /\ minPlayers' = IF d.minplayers = Null THEN Num(2) ELSE ParseInt(d.minplayers.s)
    /\ maxPlayers' = IF d.maxplayers = Null THEN Num(4) ELSE ParseInt(d.maxplayers.s)
    /\ pendingSelects' = RemoveAt(pendingSelects, i)
    /\ UNCHANGED <<user, title, location, gameTime, boardgamegeekID, players, friends,
                   pendingAdds, gameSessions, friendFetches, formAlert,
                   searchVars, notFormVars>>

\* A fetch of the i-th waiting call was rejected: the catch block.
SelectRejects(i) ==
    /\ i \in 1..Len(pendingSelects)
    /\ formAlert' = "Could not fetch game details from BoardGameGeek."
    /\ pendingSelects' = RemoveAt(pendingSelects, i)
    /\ UNCHANGED <<user, formFields, friends, pendingAdds, gameSessions,
                   friendFetches, searchVars, notFormVars>>

\* players.filter((player) => player[flag]).map((player) => player.uid)
RECURSIVE UidsWith(_, _)
UidsWith(ps, flag) ==
    IF ps = <<>> THEN <<>>
    ELSE (IF Head(ps)[flag] THEN <<Head(ps).uid>> ELSE <<>>) \o UidsWith(Tail(ps), flag)

\* Mutant of NewSession: the owner taken from the isOwner flags of the form.
NewSessionOwnerFromFlags ==
    [boardgamegeekID |-> boardgamegeekID,
     creator |-> user.uid,
     gameTime |-> gameTime,
     location |-> IF location = <<>> THEN Null ELSE Str(location),
     owner |-> IF UidsWith(players, "isOwner") = <<>> THEN ""
               ELSE Head(UidsWith(players, "isOwner")),
     title |-> title,
     minPlayers |-> minPlayers,
     maxPlayers |-> maxPlayers,
     hosts |-> UidsWith(players, "isHost"),
     players |-> UidsWith(players, "isPlayer"),
     teachers |-> UidsWith(players, "isTeacher")]

\* The document handleAddGame gives to addDoc.
NewSession ==
    [boardgamegeekID |-> boardgamegeekID,
     creator |-> user.uid,
     gameTime |-> gameTime,
     location |-> IF location = <<>> THEN Null ELSE Str(location),
     owner |-> user.uid,
     title |-> title,
     minPlayers |-> minPlayers,
     maxPlayers |-> maxPlayers,
     hosts |-> UidsWith(players, "isHost"),
     players |-> UidsWith(players, "isPlayer"),
     teachers |-> UidsWith(players, "isTeacher")]

\* Mutant of MinExceedsMax: the check on the player counts left out.
MinExceedsMaxUnchecked(min, max) == FALSE

\* if (minPlayers > maxPlayers)
MinExceedsMax(min, max) == GreaterThan(min, max)

\* handleAddGame up to await addDoc.
HandleAddGame ==
    /\ IF user = Null
       THEN /\ formAlert' = "User not authenticated."
            /\ UNCHANGED pendingAdds
       ELSE IF Blank(boardgamegeekID)
       THEN /\ formAlert' = "A BoardGameGeek ID is required."
            /\ UNCHANGED pendingAdds
       ELSE IF MinExceedsMax(minPlayers, maxPlayers)
       THEN /\ formAlert' = "Min players cannot be greater than max players."
            /\ UNCHANGED pendingAdds
       ELSE /\ Len(gameSessions) < MaxSessions
            /\ Len(pendingAdds) < MaxPendingAdds
            /\ pendingAdds' = Append(pendingAdds, NewSession)
            /\ UNCHANGED formAlert
    /\ UNCHANGED <<user, formFields, friends, pendingSelects, gameSessions,
                   friendFetches, searchVars, notFormVars>>

\* addDoc of the i-th waiting call wrote the document: the alert, then the
\* form is reset.
AddDocResolves(i) ==
    /\ i \in 1..Len(pendingAdds)
    /\ gameSessions' = Append(gameSessions, pendingAdds[i])
    /\ pendingAdds' = RemoveAt(pendingAdds, i)
    /\ formAlert' = "Success"
    /\ title' = <<>>
    /\ location' = <<>>
    /\ gameTime' = "now"
    /\ boardgamegeekID' = <<>>
    /\ players' = <<>>
    /\ minPlayers' = Num(2)
    /\ maxPlayers' = Num(4)
    /\ UNCHANGED <<user, friends, pendingSelects, friendFetches, searchVars, notFormVars>>

\* addDoc of the i-th waiting call was rejected: the catch block.
AddDocRejects(i) ==
    /\ i \in 1..Len(pendingAdds)
    /\ pendingAdds' = RemoveAt(pendingAdds, i)
    /\ formAlert' = "Could not add game session"
    /\ UNCHANGED <<user, formFields, friends, pendingSelects, gameSessions,
                   friendFetches, searchVars, notFormVars>>

NextAddGame ==
    \/ AuthStateChanged(Account)
    \/ \E t \in TypedTitles : SetTitle(t)
    \/ \E l \in TypedLocations : SetLocation(l)
    \/ OnChangeGameTime
    \/ \E text \in TypedMin : SetMinPlayers(text)
    \/ \E text \in TypedMax : SetMaxPlayers(text)
    \/ \E k \in 1..MaxItems : SelectBGGGame(k)
    \/ SelectTitleFetched(1)
    \/ \E d \in DetailResponses : SelectDetailsFetched(1, d)
    \/ SelectRejects(1)
    \/ HandleAddGame
    \/ \E i \in 1..MaxPendingAdds : AddDocResolves(i)
    \/ \E i \in 1..MaxPendingAdds : AddDocRejects(i)

SpecAddGame == InitAddGame /\ [][NextAddGame]_vars

\* The screen as mounted, kept open while sessions are added one after
\* another: each is found by a search, selected and submitted as the form
\* then stands.
InitAddMore ==
    /\ SearchIdle
    /\ ResolverIdle
    /\ DetailsIdle
    /\ FormIdle
    /\ RestIdle

NextAddMore ==
    \/ AuthStateChanged(Account)
    \/ SearchBGG(<<"c","a","t","a","n">>)
    \/ \E id \in 1..MaxRequests : FetchResolves(id, ShownResponse)
    \/ \E k \in 1..MaxItems : SelectBGGGame(k)
    \/ SelectTitleFetched(1)
    \/ \E d \in DetailResponses : SelectDetailsFetched(1, d)
    \/ HandleAddGame
    \/ \E i \in 1..MaxPendingAdds : AddDocResolves(i)
    \/ \E i \in 1..MaxPendingAdds : AddDocRejects(i)

SpecAddMore == InitAddMore /\ [][NextAddMore]_vars

\* C17 as stated: every session written by handleAddGame, the second and
\* later ones of a stay on the screen included, has its creator in its
\* players list (no role is toggled off in SpecAddMore).
C17_CreatorAmongPlayers ==
    \A i \in 1..Len(gameSessions) :
        ListIncludes(gameSessions[i].players, gameSessions[i].creator)

\* One of the three conditions on which handleAddGame returns early.
C10_Refused ==
    \/ user = Null
    \/ Trim(boardgamegeekID) = <<>>
    \/ /\ minPlayers.kind = "number"
       /\ maxPlayers.kind = "number"
       /\ minPlayers.v > maxPlayers.v

\* C10: a call of handleAddGame with no authenticated user, a blank
\* boardgamegeekID or minPlayers greater than maxPlayers hands no document to
\* addDoc, leaves the gameSessions collection as it was, and leaves title,
\* location, gameTime, boardgamegeekID, players, minPlayers and maxPlayers
\* unchanged.
C10_RefusedCallWritesNothing ==
    [][(C10_Refused /\ HandleAddGame) =>
          UNCHANGED <<title, location, gameTime, boardgamegeekID, players,
                      minPlayers, maxPlayers, pendingAdds, gameSessions>>]_vars

\* A filled-in form of a signed-in user whose call was refused for its
\* player counts, nothing written.
C10_Witness ==
    /\ formAlert = "Min players cannot be greater than max players."
    /\ user # Null
    /\ ~Blank(boardgamegeekID)
    /\ GreaterThan(minPlayers, maxPlayers)
    /\ title # <<>>
    /\ location # <<>>
    /\ players # <<>>
    /\ pendingAdds = <<>>
    /\ gameSessions = <<>>

-----------------------------------------------------------------------------
(* The profile screen (src/app/tabs/Profile.tsx): the snapshot listener on *)
(* the user document, fetchFriendsDetails and handleRemoveFriend.          *)
(* runTransaction re-runs its function when the document it read was       *)
(* written before the commit; other clients write the same document.       *)

MaxRemovals == 1
MaxOtherWrites == 1
MaxFetches == 1

\* The attempts runTransaction makes before it gives up.
MaxAttempts == 5

FriendUids == { "f1", "f2" }

\* The user documents the screen is opened on.
UserDocs == {
    [friends |-> Array(<<"f1">>)],
    [friends |-> Undefined] }

\* data.friends || []
FriendsOf(data) == IF data.friends.kind = "array" THEN data.friends.a ELSE <<>>

\* The screen mounted for the signed-in account, the first snapshot not yet
\* delivered.
InitProfile ==
    /\ SearchIdle
    /\ ResolverIdle
    /\ DetailsIdle
    /\ FormStateIdle
    /\ EditIdle
    /\ JoinIdle
    /\ WidgetIdle
    /\ user = Account
    /\ userDoc \in UserDocs
    /\ userDocVersion = 0
    /\ snapshotDue = TRUE
    /\ userData = Null
    /\ profileFriends = <<>>
    /\ removals = <<>>
    /\ detailFetches = <<>>
    /\ otherWrites = 0
    /\ profileAlert = "none"

\* The onSnapshot callback, then the effect on userData?.friends, which starts
\* fetchFriendsDetails.
SnapshotDelivered ==
    /\ snapshotDue
    /\ Len(detailFetches) < MaxFetches
    /\ snapshotDue' = FALSE
    /\ IF userDoc # Null
       THEN /\ userData' = userDoc
            /\ detailFetches' = IF userDoc.friends.kind = "array"
                                THEN Append(detailFetches, userDoc.friends.a)
                                ELSE detailFetches
       ELSE UNCHANGED <<userData, detailFetches>>
    /\ UNCHANGED <<userDoc, userDocVersion, profileFriends, removals, otherWrites,
                   profileAlert, notProfileVars>>

\* The reads of the i-th fetchFriendsDetails resolved: setFriends.
DetailFetchResolves(i) ==
    /\ i \in 1..Len(detailFetches)
    /\ profileFriends' = detailFetches[i]
    /\ detailFetches' = RemoveAt(detailFetches, i)
    /\ UNCHANGED <<userDoc, userDocVersion, snapshotDue, userData, removals,
                   otherWrites, profileAlert, notProfileVars>>

\* A read of the i-th fetchFriendsDetails was rejected: logged only.
DetailFetchRejects(i) ==
    /\ i \in 1..Len(detailFetches)
    /\ detailFetches' = RemoveAt(detailFetches, i)
    /\ UNCHANGED <<userDoc, userDocVersion, snapshotDue, userData, profileFriends,
                   removals, otherWrites, profileAlert, notProfileVars>>

\* handleRemoveFriend(friendUid) from the trash button of a listed friend: the
\* confirmation dialog is shown.
HandleRemoveFriend(friendUid) ==
    /\ ListIncludes(profileFriends, friendUid)
    /\ IF userData = Null \/ user = Null
       THEN /\ profileAlert' = "Not logged in"
            /\ UNCHANGED removals
       ELSE /\ Len(removals) < MaxRemovals
            /\ profileAlert' = "Remove Friend"
            /\ removals' = Append(removals,
                                  [friendUid |-> friendUid, stage |-> "asked",
                                   attempts |-> 0, readVersion |-> 0,
                                   updatedFriends |-> <<>>])
    /\ UNCHANGED <<userDoc, userDocVersion, snapshotDue, userData, profileFriends,
                   detailFetches, otherWrites, notProfileVars>>

\* Cancel is pressed in the dialog of the i-th call.
PressCancel(i) ==
    /\ i \in 1..Len(removals)
    /\ removals[i].stage = "asked"
    /\ removals' = RemoveAt(removals, i)
    /\ UNCHANGED <<userDoc, userDocVersion, snapshotDue, userData, profileFriends,
                   detailFetches, otherWrites, profileAlert, notProfileVars>>

\* Remove is pressed in the dialog of the i-th call: runTransaction starts.
PressRemove(i) ==
    /\ i \in 1..Len(removals)
    /\ removals[i].stage = "asked"
    /\ removals' = [removals EXCEPT ![i].stage = "get"]
    /\ UNCHANGED <<userDoc, userDocVersion, snapshotDue, userData, profileFriends,
                   detailFetches, otherWrites, profileAlert, notProfileVars>>

\* The transaction function of the i-th call: transaction.get, the two
\* checks, transaction.update.  A throw ends runTransaction and reaches catch.
TransactionGet(i) ==
    /\ i \in 1..Len(removals)
    /\ removals[i].stage = "get"
    /\ IF userDoc = Null
       THEN /\ profileAlert' = "Your user profile was not found."
            /\ removals' = RemoveAt(removals, i)
       ELSE IF ~ListIncludes(FriendsOf(userDoc), removals[i].friendUid)
       THEN /\ profileAlert' = "This friend is not in your friend list."
            /\ removals' = RemoveAt(removals, i)
       ELSE /\ removals' = [removals EXCEPT
                              ![i].stage = "commit",
                              ![i].attempts = @ + 1,
                              ![i].readVersion = userDocVersion,
                              ![i].updatedFriends =
                                  Without(FriendsOf(userDoc), removals[i].friendUid)]
            /\ UNCHANGED profileAlert
    /\ UNCHANGED <<userDoc, userDocVersion, snapshotDue, userData, profileFriends,
                   detailFetches, otherWrites, notProfileVars>>

\* Mutant of Conflict: the commit does not look at what was written since the
\* read.
ConflictIgnored(call) == FALSE

\* The document was written after the transaction read it.
Conflict(call) == call.readVersion # userDocVersion

\* The commit of the i-th call's transaction: the update is applied, or the
\* function is run again, or after MaxAttempts runTransaction is rejected.
TransactionCommit(i) ==
    /\ i \in 1..Len(removals)
    /\ removals[i].stage = "commit"
    /\ IF Conflict(removals[i])
       THEN /\ IF removals[i].attempts >= MaxAttempts
               THEN /\ removals' = RemoveAt(removals, i)
                    /\ profileAlert' = "Could not remove friend. Please try again."
               ELSE /\ removals' = [removals EXCEPT ![i].stage = "get"]
                    /\ UNCHANGED profileAlert
            /\ UNCHANGED <<userDoc, userDocVersion, snapshotDue>>
       ELSE /\ userDoc' = [friends |-> Array(removals[i].updatedFriends)]
            /\ userDocVersion' = userDocVersion + 1
            /\ snapshotDue' = TRUE
            /\ removals' = [removals EXCEPT ![i].stage = "written"]
            /\ UNCHANGED profileAlert
    /\ UNCHANGED <<userData, profileFriends, detailFetches, otherWrites,
                   notProfileVars>>

\* runTransaction of the i-th call resolved: setFriends, setUserData, the
\* alert; the effect on userData?.friends starts fetchFriendsDetails.
TransactionResolved(i) ==
    /\ i \in 1..Len(removals)
    /\ removals[i].stage = "written"
    /\ Len(detailFetches) < MaxFetches
    /\ profileFriends' = Without(profileFriends, removals[i].friendUid)
    /\ IF userData # Null
       THEN /\ userData' = [friends |->
                               Array(Without(FriendsOf(userData), removals[i].friendUid))]
            /\ detailFetches' =
                   Append(detailFetches,
                          Without(FriendsOf(userData), removals[i].friendUid))
       ELSE UNCHANGED <<userData, detailFetches>>
    /\ profileAlert' = "Friend removed successfully"
    /\ removals' = RemoveAt(removals, i)
    /\ UNCHANGED <<userDoc, userDocVersion, snapshotDue, otherWrites, notProfileVars>>

\* runTransaction of the i-th call was rejected before its commit: catch.
TransactionRejects(i) ==
    /\ i \in 1..Len(removals)
    /\ removals[i].stage \in {"get", "commit"}
    /\ removals' = RemoveAt(removals, i)
    /\ profileAlert' = "Could not remove friend. Please try again."
    /\ UNCHANGED <<userDoc, userDocVersion, snapshotDue, userData, profileFriends,
                   detailFetches, otherWrites, notProfileVars>>

\* Another client of the same account adds a friend.
OtherClientAddsFriend(friendUid) ==
    /\ userDoc # Null
    /\ otherWrites < MaxOtherWrites
    /\ ~ListIncludes(FriendsOf(userDoc), friendUid)
    /\ userDoc' = [friends |-> Array(Append(FriendsOf(userDoc), friendUid))]
    /\ userDocVersion' = userDocVersion + 1
    /\ snapshotDue' = TRUE
    /\ otherWrites' = otherWrites + 1
    /\ UNCHANGED <<userData, profileFriends, removals, detailFetches, profileAlert,
                   notProfileVars>>

\* Another client of the same account removes a friend.
OtherClientRemovesFriend(friendUid) ==
    /\ userDoc # Null
    /\ otherWrites < MaxOtherWrites
    /\ ListIncludes(FriendsOf(userDoc), friendUid)
    /\ userDoc' = [friends |-> Array(Without(FriendsOf(userDoc), friendUid))]
    /\ userDocVersion' = userDocVersion + 1
    /\ snapshotDue' = TRUE
    /\ otherWrites' = otherWrites + 1
    /\ UNCHANGED <<userData, profileFriends, removals, detailFetches, profileAlert,
                   notProfileVars>>

\* The user document is deleted from outside the screen.
UserDocDeleted ==
    /\ userDoc # Null
    /\ otherWrites < MaxOtherWrites
    /\ userDoc' = Null
    /\ userDocVersion' = userDocVersion + 1
    /\ snapshotDue' = TRUE
    /\ otherWrites' = otherWrites + 1
    /\ UNCHANGED <<userData, profileFriends, removals, detailFetches, profileAlert,
                   notProfileVars>>

NextProfile ==
    \/ SnapshotDelivered
    \/ \E i \in 1..MaxFetches : DetailFetchResolves(i)
    \/ \E i \in 1..MaxFetches : DetailFetchRejects(i)
    \/ \E friendUid \in FriendUids : HandleRemoveFriend(friendUid)
    \/ \E i \in 1..MaxRemovals : PressCancel(i)
    \/ \E i \in 1..MaxRemovals : PressRemove(i)
    \/ \E i \in 1..MaxRemovals : TransactionGet(i)
    \/ \E i \in 1..MaxRemovals : TransactionCommit(i)
    \/ \E i \in 1..MaxRemovals : TransactionResolved(i)
    \/ \E i \in 1..MaxRemovals : TransactionRejects(i)
    \/ \E friendUid \in FriendUids : OtherClientAddsFriend(friendUid)
    \/ \E friendUid \in FriendUids : OtherClientRemovesFriend(friendUid)
    \/ UserDocDeleted

SpecProfile == InitProfile /\ [][NextProfile]_vars

\* The transaction of the i-th call is committed in this step.
Commits(i) ==
    /\ i \in 1..Len(removals)
    /\ removals[i].stage = "commit"
    /\ Len(removals') = Len(removals)
    /\ removals'[i].stage = "written"

\* The transaction function of the i-th call throws in this step.
Throws(i) ==
    /\ TransactionGet(i)
    /\ \/ userDoc = Null
       \/ ~ListIncludes(FriendsOf(userDoc), removals[i].friendUid)

\* C12: a step that writes the user document for this screen is the commit
\* of a handleRemoveFriend transaction, and it stores the list the
\* transaction read, which is the stored list, with friendUid removed and
\* every other friend kept; when the document is missing or friendUid is not
\* in the stored list, the document, userData and friends stay as they were.
C12_RemoveFriendAllOrNothing ==
    [][/\ (userDoc' # userDoc /\ otherWrites' = otherWrites) =>
             \E i \in 1..MaxRemovals :
                 /\ Commits(i)
                 /\ userDoc # Null
                 /\ userDoc' # Null
                 /\ removals[i].updatedFriends =
                        Without(FriendsOf(userDoc), removals[i].friendUid)
                 /\ userDoc'.friends =
                        Array(Without(FriendsOf(userDoc), removals[i].friendUid))
                 /\ \A u \in FriendUids \ {removals[i].friendUid} :
                        ListIncludes(FriendsOf(userDoc), u)
                            => ListIncludes(FriendsOf(userDoc'), u)
       /\ \A i \in 1..MaxRemovals :
             Throws(i) => UNCHANGED <<userDoc, userData, profileFriends>>]_vars

\* C12's case: friend f1 was removed by a transaction that ran twice because
\* another client added f2 in between, and f2 is in the stored list.
C12_Witness ==
    /\ Len(removals) = 1
    /\ removals[1].stage = "written"
    /\ removals[1].friendUid = "f1"
    /\ removals[1].attempts = 2
    /\ otherWrites = 1
    /\ userDoc = [friends |-> Array(<<"f2">>)]
    /\ userData = [friends |-> Array(<<"f1">>)]

-----------------------------------------------------------------------------
(* The session details screen with its edit handlers                       *)
(* (src/app/GameSessionDetails/[id].tsx): toggleRole and                    *)
(* handleRemoveParticipant change the session held by the screen;          *)
(* handleSaveChanges writes its role lists to the document, then leaves    *)
(* the screen.  The handlers are taken as they are written: the screen     *)
(* never sets isEditing to true, so its Save Changes button is not shown.  *)

MaxSaves == 1

\* The session documents the screen is opened on, cut to the role lists and
\* the owner; the owner is a uid held as Str(uid), or Null.
EditedSessions == {
    [hosts |-> Undefined, teachers |-> Undefined, players |-> Array(<<"u1">>),
     owner |-> Str("u1")],
    [hosts |-> Array(<<"u1">>), teachers |-> Array(<<>>), players |-> Array(<<"u1", "u2">>),
     owner |-> Str("u1")] }

\* list || []
OrEmpty(list) == IF list.kind = "array" THEN list.a ELSE <<>>

\* Array.from(new Set(ids))
RECURSIVE UniqueIds(_)
UniqueIds(ids) ==
    IF ids = <<>> THEN <<>>
    ELSE LET front == UniqueIds(SubSeq(ids, 1, Len(ids) - 1))
             last == ids[Len(ids)]
         IN  IF ListIncludes(front, last) THEN front ELSE Append(front, last)

\* The participants fetchSession lists for a document.
ParticipantsOf(data) ==
    UniqueIds(OrEmpty(data.hosts) \o OrEmpty(data.players) \o OrEmpty(data.teachers))

\* The screen after fetchSession found the document and the users in it.
InitEdit ==
    /\ SearchIdle
    /\ ResolverIdle
    /\ DetailsIdle
    /\ FormIdle
    /\ ProfileIdle
    /\ JoinIdle
    /\ WidgetIdle
    /\ editDoc \in EditedSessions
    /\ editSession = editDoc
    /\ participants = ParticipantsOf(editDoc)
    /\ pendingSaves = <<>>
    /\ editOpen = TRUE
    /\ editAlert = "none"

\* toggleRole(uid, role) from a role button of a listed participant.
EditToggleRole(uid, role) ==
    /\ editOpen
    /\ ListIncludes(participants, uid)
    /\ IF editSession = Null
       THEN UNCHANGED editSession
       ELSE editSession' = [editSession EXCEPT ![role] = UpdatedRoles(editSession, uid, role)]
    /\ UNCHANGED <<editDoc, participants, pendingSaves, editOpen, editAlert,
                   notEditVars>>

\* prev.hosts?.filter((id) => id !== uid) || []
FilteredOrEmpty(list, uid) ==
    IF list.kind = "array" THEN Array(Without(list.a, uid)) ELSE Array(<<>>)

\* handleRemoveParticipant(uid) from the Remove button of a listed participant.
HandleRemoveParticipant(uid) ==
    /\ editOpen
    /\ ListIncludes(participants, uid)
    /\ participants' = Without(participants, uid)
    /\ IF editSession = Null
       THEN UNCHANGED editSession
       ELSE editSession' = [editSession EXCEPT
                                !.hosts = FilteredOrEmpty(editSession.hosts, uid),
                                !.teachers = FilteredOrEmpty(editSession.teachers, uid),
                                !.players = FilteredOrEmpty(editSession.players, uid)]
    /\ UNCHANGED <<editDoc, pendingSaves, editOpen, editAlert, notEditVars>>

\* handleSaveChanges up to await updateDoc.
HandleSaveChanges ==
    /\ editOpen
    /\ IF editSession = Null
       THEN /\ editAlert' = "Session data is missing."
            /\ UNCHANGED pendingSaves
       ELSE /\ Len(pendingSaves) < MaxSaves
            /\ pendingSaves' = Append(pendingSaves,
                                      [hosts |-> Array(OrEmpty(editSession.hosts)),
                                       teachers |-> Array(OrEmpty(editSession.teachers)),
                                       players |-> Array(OrEmpty(editSession.players))])
            /\ UNCHANGED editAlert
    /\ UNCHANGED <<editDoc, editSession, participants, editOpen, notEditVars>>

\* updateDoc of the i-th waiting call wrote its fields into the document:
\* the alert, then router.back().
SaveResolves(i) ==
    /\ i \in 1..Len(pendingSaves)
    /\ editDoc' = [editDoc EXCEPT !.hosts = pendingSaves[i].hosts,
                                  !.teachers = pendingSaves[i].teachers,
                                  !.players = pendingSaves[i].players]
    /\ pendingSaves' = RemoveAt(pendingSaves, i)
    /\ editAlert' = "Game session details updated successfully."
    /\ editOpen' = FALSE
    /\ UNCHANGED <<editSession, participants, notEditVars>>

\* updateDoc of the i-th waiting call was rejected: the catch block.
SaveRejects(i) ==
    /\ i \in 1..Len(pendingSaves)
    /\ pendingSaves' = RemoveAt(pendingSaves, i)
    /\ editAlert' = "Failed to update game session details."
    /\ UNCHANGED <<editDoc, editSession, participants, editOpen, notEditVars>>

NextEdit ==
    \/ \E uid \in Uids, role \in Roles : EditToggleRole(uid, role)
    \/ \E uid \in Uids : HandleRemoveParticipant(uid)
    \/ HandleSaveChanges
    \/ \E i \in 1..MaxSaves : SaveResolves(i)
    \/ \E i \in 1..MaxSaves : SaveRejects(i)

SpecEdit == InitEdit /\ [][NextEdit]_vars

\* The role lists the screen holds are the lists of the document.
SavedAsShown ==
    \A role \in Roles : OrEmpty(editSession[role]) = OrEmpty(editDoc[role])

\* C15 as stated: after toggleRole and handleRemoveParticipant actions and a
\* successful handleSaveChanges of what the screen holds, every participant
\* the screen lists has at least one of the roles host, player, teacher in
\* the stored document.
C15_ListedParticipantsHoldRole ==
    (editAlert = "Game session details updated successfully." /\ SavedAsShown) =>
        \A uid \in Uids : ListIncludes(participants, uid) => HoldsRole(editDoc, uid)

\* toggleOwner(uid) from the Owner button of a listed participant.
ToggleOwner(uid) ==
    /\ editOpen
    /\ ListIncludes(participants, uid)
    /\ IF editSession = Null
       THEN UNCHANGED editSession
       ELSE editSession' = [editSession EXCEPT
                                !.owner = IF editSession.owner = Str(uid)
                                          THEN Null ELSE Str(uid)]
    /\ UNCHANGED <<editDoc, participants, pendingSaves, editOpen, editAlert,
                   notEditVars>>

\* The screen with its role buttons and its Owner button in use.
InitOwner == InitEdit

NextOwner ==
    \/ \E uid \in Uids, role \in Roles : EditToggleRole(uid, role)
    \/ \E uid \in Uids : ToggleOwner(uid)
    \/ HandleSaveChanges
    \/ \E i \in 1..MaxSaves : SaveResolves(i)
    \/ \E i \in 1..MaxSaves : SaveRejects(i)

SpecOwner == InitOwner /\ [][NextOwner]_vars

\* C24 as stated, for a save that stored the role lists the screen holds:
\* after handleSaveChanges succeeded in the session details screen, the
\* stored document agrees with the locally edited session on every role
\* assignment made on that screen, hosts, players and teachers and also the
\* owner chosen with toggleOwner.
C24_SavedOwnerAsEdited ==
    (editAlert = "Game session details updated successfully." /\ SavedAsShown) =>
        editDoc.owner = editSession.owner

-----------------------------------------------------------------------------
(* The Search Game Sessions screen (src/unnamed/part_002): the snapshot    *)
(* listener on the gameSessions collection, the filter effect and          *)
(* joinGame.  Each user of JoinUsers has the screen open on a device of    *)
(* their own; a friend of both has the Add Game Session form open and      *)
(* submits it, so the collection holds a document handleAddGame wrote next *)
(* to one that carries the fields of this screen's GameSession type.  The  *)
(* filter effect runs after every render that changed one of its           *)
(* dependencies, before the next event is handled: it is part of the step  *)
(* that set the state.                                                     *)

MaxJoins == 2

\* The friend who creates sessions, signed in on the form.
FriendAccount == [uid |-> "u2", displayName |-> Null]

\* users/{uid}.friends of every user of JoinUsers.
FriendsOfJoinUsers == <<"u2">>

\* What is typed into the search field of the screen.
TypedQueries == { <<>>, <<"g">> }

\* The values of the filter picker.
Filters == {"all", "openSlots", "completed"}

\* A document with the fields of the GameSession type of the screen.
ListedSession ==
    [sessionTitle |-> Str(<<"G", "o">>),
     gameTitle |-> Null,
     creator |-> "u2",
     players |-> <<"u2">>,
     maxPlayers |-> Num(3)]

\* session.field for a title or a count: undefined for a field the document
\* does not have.
Field(d, f) == IF f \in DOMAIN d THEN d[f] ELSE Undefined

\* snapshot.docs.map((doc) => ({ id: doc.id, ...doc.data() })): the id of a
\* document is its place in the collection.
SnapshotOf(docs) == [i \in 1..Len(docs) |-> [id |-> i, data |-> docs[i]]]

\* friends.includes(session.creator || '')
IsCreatedByFriend(d, fr) ==
    ListIncludes(fr, IF "creator" \in DOMAIN d THEN d.creator ELSE "")

\* Mutant of IsNotAPlayer: the players of the session not looked at.
IsNotAPlayerUnchecked(d, uid) == TRUE

\* !session.players?.includes(user.uid || '')
IsNotAPlayer(d, uid) ==
    ~("players" \in DOMAIN d /\ ListIncludes(d.players, uid))

\* (t?.toLowerCase().includes(lowerQuery) || false)
TitleMatches(t, lowerQuery) ==
    t.kind = "string" /\ Includes(ToLowerCase(t.s), lowerQuery)

\* matchesQuery
MatchesQuery(d, q) ==
    \/ TitleMatches(Field(d, "sessionTitle"), ToLowerCase(q))
    \/ TitleMatches(Field(d, "gameTitle"), ToLowerCase(q))

\* (session.players?.length || 0)
PlayersLength(d) ==
    IF "players" \in DOMAIN d THEN Len(d.players) ELSE 0

\* (session.maxPlayers || 0)
MaxPlayersOrZero(d) ==
    LET m == Field(d, "maxPlayers") IN IF IsNum(m) THEN m.v ELSE 0

\* passesFilter
PassesFilter(d, f) ==
    IF f = "openSlots" THEN PlayersLength(d) < MaxPlayersOrZero(d)
    ELSE IF f = "completed" THEN PlayersLength(d) >= MaxPlayersOrZero(d)
    ELSE TRUE

\* The filter effect: what it hands to setFilteredSessions.
FilterSessions(uid, q, ss, fr, f) ==
    SelectSeq(ss, LAMBDA s :
        /\ IsCreatedByFriend(s.data, fr)
        /\ IsNotAPlayer(s.data, uid)
        /\ MatchesQuery(s.data, q)
        /\ PassesFilter(s.data, f))

\* The friend's form filled in and both screens mounted; the collection
\* holds one session of the friend.
InitListing ==
    /\ SearchIdle
    /\ ResolverIdle
    /\ DetailsIdle
    /\ ProfileIdle
    /\ EditIdle
    /\ JoinIdle
    /\ WidgetIdle
    /\ user = FriendAccount
    /\ boardgamegeekID = <<"1">>
    /\ title = <<"G", "o">>
    /\ location = <<>>
    /\ gameTime = "now"
    /\ minPlayers = Num(2)
    /\ maxPlayers = Num(4)
    /\ friends = <<>>
    /\ players = <<CreatorEntry(FriendAccount)>>
    /\ pendingSelects = <<>>
    /\ pendingAdds = <<>>
    /\ gameSessions = <<ListedSession>>
    /\ friendFetches = 0
    /\ formAlert = "none"

\* fetchFriends of user c read the user document: setFriends, then the
\* filter effect.
JoinFriendsFetched(c) ==
    /\ friendIds[c] = <<>>
    /\ friendIds' = [friendIds EXCEPT ![c] = FriendsOfJoinUsers]
    /\ filteredSessions' = [filteredSessions EXCEPT ![c] =
           FilterSessions(c, query[c], sessions[c], FriendsOfJoinUsers, filter[c])]
    /\ UNCHANGED <<query, sessions, filter, pendingJoins, joinAlert, formVars,
                   notJoinVars>>

\* The snapshot listener of user c is given the collection as it stands:
\* setSessions, then the filter effect.
SessionsSnapshot(c) ==
    /\ sessions[c] # SnapshotOf(gameSessions)
    /\ sessions' = [sessions EXCEPT ![c] = SnapshotOf(gameSessions)]
    /\ filteredSessions' = [filteredSessions EXCEPT ![c] =
           FilterSessions(c, query[c], SnapshotOf(gameSessions), friendIds[c], filter[c])]
    /\ UNCHANGED <<query, friendIds, filter, pendingJoins, joinAlert, formVars,
                   notJoinVars>>

\* onChangeText={setQuery}, then the filter effect.
SetQuery(c, q) ==
    /\ q # query[c]
    /\ query' = [query EXCEPT ![c] = q]
    /\ filteredSessions' = [filteredSessions EXCEPT ![c] =
           FilterSessions(c, q, sessions[c], friendIds[c], filter[c])]
    /\ UNCHANGED <<sessions, friendIds, filter, pendingJoins, joinAlert, formVars,
                   notJoinVars>>

\* onValueChange of the filter picker, then the filter effect.
SetFilter(c, f) ==
    /\ f # filter[c]
    /\ filter' = [filter EXCEPT ![c] = f]
    /\ filteredSessions' = [filteredSessions EXCEPT ![c] =
           FilterSessions(c, query[c], sessions[c], friendIds[c], f)]
    /\ UNCHANGED <<query, sessions, friendIds, pendingJoins, joinAlert, formVars,
                   notJoinVars>>

\* sessions.find((s) => s.id === sessionId)?.players || []
FoundPlayers(ss, sessionId) ==
    IF \E i \in 1..Len(ss) : ss[i].id = sessionId
    THEN LET found == ss[CHOOSE i \in 1..Len(ss) : ss[i].id = sessionId].data
         IN  IF "players" \in DOMAIN found THEN found.players ELSE <<>>
    ELSE <<>>

\* Join Game pressed by user c on the k-th session listed: joinGame up to
\* await updateDoc.
JoinGame(c, k) ==
    /\ k \in 1..Len(filteredSessions[c])
    /\ Len(pendingJoins) < MaxJoins
    /\ pendingJoins' = Append(pendingJoins,
           [uid |-> c,
            sessionId |-> filteredSessions[c][k].id,
            players |-> Append(FoundPlayers(sessions[c], filteredSessions[c][k].id), c)])
    /\ UNCHANGED <<query, sessions, filteredSessions, friendIds, filter, joinAlert,
                   formVars, notJoinVars>>

\* updateDoc of the i-th waiting joinGame wrote the players field.
JoinResolves(i) ==
    /\ i \in 1..Len(pendingJoins)
    /\ gameSessions' = [gameSessions EXCEPT
           ![pendingJoins[i].sessionId].players = pendingJoins[i].players]
    /\ joinAlert' = [joinAlert EXCEPT ![pendingJoins[i].uid] =
                                            "You have joined the game!"]
    /\ pendingJoins' = RemoveAt(pendingJoins, i)
    /\ UNCHANGED <<query, sessions, filteredSessions, friendIds, filter,
                   user, formFields, friends, pendingSelects, pendingAdds,
                   friendFetches, formAlert, notJoinVars>>

\* updateDoc of the i-th waiting joinGame was rejected: the catch block.
JoinRejects(i) ==
    /\ i \in 1..Len(pendingJoins)
    /\ joinAlert' = [joinAlert EXCEPT ![pendingJoins[i].uid] =
                                            "Could not join the game."]
    /\ pendingJoins' = RemoveAt(pendingJoins, i)
    /\ UNCHANGED <<query, sessions, filteredSessions, friendIds, filter, formVars,
                   notJoinVars>>

\* What the screens list while the friend submits the form: no Join Game
\* button is pressed.
NextListing ==
    \/ HandleAddGame
    \/ \E i \in 1..MaxPendingAdds : AddDocResolves(i)
    \/ \E i \in 1..MaxPendingAdds : AddDocRejects(i)
    \/ \E c \in JoinUsers : JoinFriendsFetched(c)
    \/ \E c \in JoinUsers : SessionsSnapshot(c)
    \/ \E c \in JoinUsers, q \in TypedQueries : SetQuery(c, q)
    \/ \E c \in JoinUsers, f \in Filters : SetFilter(c, f)

SpecListing == InitListing /\ [][NextListing]_vars

\* Joining the session the collection holds: the friend's form stays as it
\* is and the search field stays empty.
InitJoin == InitListing

NextJoin ==
    \/ \E c \in JoinUsers : JoinFriendsFetched(c)
    \/ \E c \in JoinUsers : SessionsSnapshot(c)
    \/ \E c \in JoinUsers, f \in Filters : SetFilter(c, f)
    \/ \E c \in JoinUsers, k \in 1..MaxSessions : JoinGame(c, k)
    \/ \E i \in 1..MaxJoins : JoinResolves(i)
    \/ \E i \in 1..MaxJoins : JoinRejects(i)

SpecJoin == InitJoin /\ [][NextJoin]_vars

\* The document has the fields handleAddGame writes.
WrittenByHandleAddGame(d) == DOMAIN d = DOMAIN NewSession

\* C18 as stated: a gameSession written by handleAddGame by a friend of the
\* current user, in which the current user is not a player, is listed on the
\* Search Game Sessions screen when the query is empty and the filter is
\* 'all' (the session is in the snapshot the screen holds and the friend
\* list has been read).
C18_FriendSessionListed ==
    \A c \in JoinUsers : \A i \in 1..Len(sessions[c]) :
        ( /\ WrittenByHandleAddGame(sessions[c][i].data)
          /\ ListIncludes(friendIds[c], sessions[c][i].data.creator)
          /\ ~ListIncludes(sessions[c][i].data.players, c)
          /\ query[c] = <<>>
          /\ filter[c] = "all" )
        => \E k \in 1..Len(filteredSessions[c]) :
               filteredSessions[c][k].id = sessions[c][i].id

\* C19 as stated: joinGame does not lose participants.  When the two users
\* have each called joinGame on the session, both updates have succeeded and
\* no call is waiting, the stored players list contains both users and
\* everyone who was in it before, however the two writes and the snapshot
\* deliveries were interleaved.
C19_BothJoinsKept ==
    ( /\ pendingJoins = <<>>
      /\ \A c \in JoinUsers : joinAlert[c] = "You have joined the game!" )
    => /\ \A c \in JoinUsers : ListIncludes(gameSessions[1].players, c)
       /\ \A k \in 1..Len(ListedSession.players) :
              ListIncludes(gameSessions[1].players, ListedSession.players[k])

\* How many entries of a players list are uid.
Occurrences(list, uid) == Cardinality({k \in 1..Len(list) : list[k] = uid})

C22_SearchingWhileLatestInFlight ==
    ( /\ searchRequestIdRef \in 1..Len(requests)
      /\ requests[searchRequestIdRef].status = "pending" )
    => isSearching

-----------------------------------------------------------------------------
(* The player list of the Add Game Session form (src/unnamed/part_001):    *)
(* the effect on user, addPlayer, the role buttons and handleAddGame, with *)
(* useAuth() giving a user, then none, then a user again while the form    *)
(* stays mounted.                                                          *)

\* The flags the role buttons of a player row toggle.
PlayerFlags == {"isHost", "isTeacher", "isOwner", "isPlayer"}

\* toggleRole(uid, role) of the form: every entry with this uid has the
\* flag inverted.
FormToggleRole(uid, flag) ==
    /\ \E i \in 1..Len(players) : players[i].uid = uid
    /\ players' = [i \in 1..Len(players) |->
                      IF players[i].uid = uid
                      THEN [players[i] EXCEPT ![flag] = ~players[i][flag]]
                      ELSE players[i]]
    /\ UNCHANGED <<user, title, location, gameTime, boardgamegeekID, minPlayers,
                   maxPlayers, friends, pendingSelects, pendingAdds, gameSessions,
                   friendFetches, formAlert, searchVars, notFormVars>>

\* The role buttons pressed while the list is followed.
ToggledFlags == {"isHost"}

\* The form after one search, as in InitAddGame.
InitPlayers == InitAddGame

NextPlayers ==
    \/ \E u \in {Null, Account} : AuthStateChanged(u)
    \/ FetchFriendsResolves
    \/ \E k \in 1..Len(FriendsOfAccount) : AddPlayer(k)
    \/ \E uid \in Uids, flag \in ToggledFlags : FormToggleRole(uid, flag)
    \/ \E k \in 1..MaxItems : SelectBGGGame(k)
    \/ SelectTitleFetched(1)
    \/ \E d \in DetailResponses : SelectDetailsFetched(1, d)
    \/ HandleAddGame
    \/ \E i \in 1..MaxPendingAdds : AddDocResolves(i)

SpecPlayers == InitPlayers /\ [][NextPlayers]_vars

\* No uid is in the list twice.
NoRepeatedUid(list) ==
    \A i, j \in 1..Len(list) : list[i] = list[j] => i = j

\* C21 as stated: the player list of the form never holds two entries with
\* the same uid, after any sequence of addPlayer calls, role toggles,
\* successful submissions and authentication-state changes that re-run the
\* add-creator effect; hence no written hosts, players or teachers list
\* repeats a uid.
C21_NoUidTwice ==
    /\ NoRepeatedUid([i \in 1..Len(players) |-> players[i].uid])
    /\ \A n \in 1..Len(gameSessions) :
           /\ NoRepeatedUid(gameSessions[n].hosts)
           /\ NoRepeatedUid(gameSessions[n].players)
           /\ NoRepeatedUid(gameSessions[n].teachers)

\* The form with the Owner buttons of the player rows in use: the creator
\* signs in, adds a friend, and the isOwner flags are toggled before the
\* form is submitted.
InitOwnerFlags == InitAddGame

NextOwnerFlags ==
    \/ AuthStateChanged(Account)
    \/ FetchFriendsResolves
    \/ \E k \in 1..Len(FriendsOfAccount) : AddPlayer(k)
    \/ \E uid \in Uids : FormToggleRole(uid, "isOwner")
    \/ \E k \in 1..MaxItems : SelectBGGGame(k)
    \/ SelectTitleFetched(1)
    \/ \E d \in DetailResponses : SelectDetailsFetched(1, d)
    \/ HandleAddGame
    \/ \E i \in 1..MaxPendingAdds : AddDocResolves(i)
    \/ \E i \in 1..MaxPendingAdds : AddDocRejects(i)

SpecOwnerFlags == InitOwnerFlags /\ [][NextOwnerFlags]_vars

\* C25: every gameSession document written by handleAddGame has creator and
\* owner both equal to the authenticated user's uid, whatever isOwner flags
\* were toggled for any participant in the form: the document a call hands
\* to addDoc has them equal to the uid of the user of that call, and every
\* document of the collection has them equal to the uid of the account.
C25_CreatorAndOwnerAreTheUser ==
    /\ [](\A n \in 1..Len(gameSessions) :
             /\ gameSessions[n].creator = Account.uid
             /\ gameSessions[n].owner = Account.uid)
    /\ [][(HandleAddGame /\ pendingAdds' # pendingAdds) =>
             /\ pendingAdds'[Len(pendingAdds')].creator = user.uid
             /\ pendingAdds'[Len(pendingAdds')].owner = user.uid]_vars

\* A call waiting for addDoc with u1 as creator and owner, made with the
\* Owner button of u1 off and that of the friend u2 on.
C25_Witness ==
    /\ Len(pendingAdds) = 1
    /\ pendingAdds[1].owner = "u1"
    /\ pendingAdds[1].creator = "u1"
    /\ \E i, j \in 1..Len(players) :
           /\ players[i].uid = "u1" /\ ~players[i].isOwner
           /\ players[j].uid = "u2" /\ players[j].isOwner

-----------------------------------------------------------------------------
(* selectBGGGame called again while the fetches of an earlier call are     *)
(* still waiting (src/unnamed/part_001:228-261): the search field is used  *)
(* again after a selection, and another result is selected.                *)

\* What the search for "catan" is answered while games are selected.
TwoGames == << CatalogPool[1], CatalogPool[2] >>

\* What /thing gives for minplayers and maxplayers of a game id.
CatalogDetails(id) ==
    IF id = <<"1">>
    THEN [minplayers |-> Str(<<"3">>), maxplayers |-> Str(<<"4">>)]
    ELSE [minplayers |-> Str(<<"2">>), maxplayers |-> Str(<<"6">>)]

InitSelect ==
    /\ SearchIdle
    /\ ResolverIdle
    /\ DetailsIdle
    /\ FormIdle
    /\ RestIdle

NextSelect ==
    \/ SearchBGG(<<"c","a","t","a","n">>)
    \/ \E id \in 1..MaxRequests : FetchResolves(id, TwoGames)
    \/ \E k \in 1..MaxItems : SelectBGGGame(k)
    \/ \E i \in 1..MaxRequests : SelectTitleFetched(i)
    \/ \E i \in 1..MaxRequests :
           SelectDetailsFetched(i, CatalogDetails(pendingSelects[i].id))

SpecSelect == InitSelect /\ [][NextSelect]_vars

\* C23 as stated: after any sequence of selectBGGGame calls whose fetches
\* have all completed, in any completion order, the form's title, minPlayers
\* and maxPlayers are those fetched for the game whose id is in
\* boardgamegeekID (the last game selected), never those of an earlier
\* selection.
C23_FormShowsLastSelection ==
    (pendingSelects = <<>> /\ boardgamegeekID # <<>>) =>
        /\ title = CatalogTitle(boardgamegeekID)
        /\ minPlayers = ParseInt(CatalogDetails(boardgamegeekID).minplayers.s)
        /\ maxPlayers = ParseInt(CatalogDetails(boardgamegeekID).maxplayers.s)

-----------------------------------------------------------------------------
(* The BGGSearchInput widget (src/app/BGGSearchInput.tsx) next to the      *)
(* search of the Add Game Session screen: both are given the same term and *)
(* the same response, and each hands its results to its own state.         *)

\* year ? parseInt(year, 10) : undefined
WidgetYear(item) ==
    IF item.yearElement /\ TruthyString(item.yearValue)
    THEN ParseInt(item.yearValue.s)
    ELSE Undefined

\* items.map((item) => ({ id, name, year })) of the widget: id is the id
\* attribute as it is, name the value attribute or ''.
WidgetResults(its) ==
    [i \in 1..Len(FirstItems(its)) |->
        [id |-> FirstItems(its)[i].id,
         name |-> IF TruthyString(FirstItems(its)[i].name)
                  THEN FirstItems(its)[i].name ELSE Str(<<>>),
         year |-> WidgetYear(FirstItems(its)[i])]]

\* The fetch of the widget's searchBGG resolved with the items: the rest of
\* the try block.
WidgetFetchResolves ==
    /\ phase \in {"fetched", "resolved", "resolved again"}
    /\ searchResults' = WidgetResults(items)
    /\ UNCHANGED notWidgetVars

NextWidget ==
    \/ Resolve
    \/ WidgetFetchResolves

SpecWidget == InitResolver /\ [][NextWidget]_vars

\* The ids and names a result list displays, in order.
Displayed(rs) == [i \in 1..Len(rs) |-> [id |-> rs[i].id, name |-> rs[i].name]]

\* The same for the list of the Add Game Session search, whose ids and
\* names are held as plain strings.
DisplayedByForm(rs) ==
    [i \in 1..Len(rs) |-> [id |-> Str(rs[i].id), name |-> Str(rs[i].name)]]

\* C26 as stated: the BGGSearchInput widget displays the same result
\* sequence as the Add Game Session search for the same query and the same
\* catalog response, the first 10 candidates filtered (no "promo", query
\* substring present) and sorted by matchIndex, year descending, name
\* length.
C26_WidgetShowsWhatFormShows ==
    (phase = "resolved" /\ searchResults = WidgetResults(items)) =>
        Displayed(searchResults) = DisplayedByForm(sortedResults)

=============================================================================
